---- MODULE Spec2Model ----
(***************************************************************************)
(* A model of rawzip: the end-of-central-directory locator, the central    *)
(* directory iterators, entry addressing, the verifying readers, the path  *)
(* normalizer and the archive writer.                                      *)
(*                                                                         *)
(* Byte strings are sequences of integers.  Offsets and indices keep the   *)
(* program's 0-based values; Slice(s, a, b) is the Rust slice s[a..b].     *)
(* Each component has its own specification (SpecScan, ...) over the       *)
(* variables it uses; the other variables stay at their idle values.       *)
(***************************************************************************)
EXTENDS Integers, Sequences, FiniteSets, TLC

VARIABLES
    pc,                 \* position of the operation in progress
    data,               \* the backing bytes (slice, or what the reader reads)
    buffer,             \* the caller's scratch buffer
    max_search_space,   \* ZipLocator.max_search_space
    offset,             \* find_end_of_central_dir: offset
    remaining,          \* find_end_of_central_dir: remaining
    carry_over,         \* find_end_of_central_dir: carry_over
    read_size,          \* find_end_of_central_dir: read_size of the last read
    location_result,    \* what find_end_of_central_dir returned
    verifier_kind,      \* which verifying reader: "ZipSliceVerifier" or "ZipVerifier"
    wayfinder,          \* ZipArchiveEntryWayfinder of the entry
    descriptor,         \* what reading the entry's data descriptor gives
    verifier,           \* ZipSliceVerifier.verifier: the expected ZipVerification
    reader,             \* the bytes the wrapped reader has still to deliver
    consumed,           \* the bytes the wrapped reader has delivered
    crc,                \* the verifying reader's crc field
    size,               \* the verifying reader's size field
    read,               \* bytes the wrapped reader returned to the last read
    read_result,        \* what the last read returned
    entry_data,         \* ZipSliceEntries.entry_data
    slice_records,      \* the records ZipSliceEntries has yielded
    slice_result,       \* what ZipSliceEntries::next_entry returned last
    pos,                \* ZipEntries.pos
    end,                \* ZipEntries.end
    entries_offset,     \* ZipEntries.offset
    base_offset,        \* ZipEntries.base_offset, ZipSliceEntries.base_offset
    central_dir_end_pos, \* ZipEntries.central_dir_end_pos
    reader_records,     \* the records ZipEntries has yielded
    reader_result,      \* what ZipEntries::next_entry returned last
    name,               \* the name handed to the path normalizer
    normalized,         \* what the normalizer returned
    entry_wayfinder,    \* the wayfinder handed to get_entry
    slice_entry,        \* what ZipSliceArchive::get_entry returned
    reader_entry,       \* what ZipArchive::get_entry returned
    located,            \* what ZipLocator::locate_in_slice returned
    located_entries,    \* the bytes ZipSliceArchive::entries iterates over
    files,              \* ZipArchiveWriter.files
    count,              \* CountWriter.count
    output,             \* the bytes the writer's sink holds, from output_base on
    output_base,        \* the stream offset of the first byte of output
    entry_writer,       \* the open ZipEntryWriter, or None
    data_writer,        \* the ZipDataWriter of the open entry
    written,            \* the (name, bytes) pairs handed to the writer so far
    write_result,       \* what the last call on the writer returned
    central_directory_offset,   \* finish: where the central directory starts
    central_directory_end, \* finish: where the central directory ends
    sink_room,          \* the bytes the writer's sink still takes, NoLimit for all
    zip_reader,         \* the ZipReader of the entry: its offset and end_offset
    zip_reader_buf,     \* the length of the buf handed to the last ZipReader read
    zip_reader_read,    \* what the last ZipReader read returned, and from where
    reader_archive,     \* locate_in_reader's result
    slice_archive,      \* locate_in_slice's result on the same data
    modification_time,  \* the UtcDateTime given as the entry's modification time
    timestamp_field,    \* the extra field of the central directory record the writer wrote
    last_modified,      \* what ZipFileHeaderRecord::last_modified returns
    unix_permissions,   \* the permissions given to the entry's builder, or None
    entry_name,         \* the name the entry is recorded under
    central_attrs,      \* version made by and external file attributes as finish wrote them
    entry_mode,         \* what ZipFileHeaderRecord::mode returns
    dos_fields,         \* the MS-DOS time and date of a record
    unix_seconds,       \* a Unix timestamp, seconds since the epoch
    civil_time,         \* the date and time made of them
    seconds_back,       \* to_unix of civil_time
    stream_position,    \* the position of the stream inside a MutexReader
    mutex_owner,        \* the thread that holds its mutex, or None
    read_calls          \* per thread, the read_at call it is in

scanVars == <<max_search_space, offset, remaining, carry_over, read_size,
              location_result>>

verifyVars == <<verifier_kind, wayfinder, descriptor, verifier, reader, consumed,
                crc, size, read, read_result>>

entriesVars == <<entry_data, slice_records, slice_result, pos, end, entries_offset,
                 base_offset, central_dir_end_pos, reader_records, reader_result>>

pathVars == <<name, normalized>>

locateVars == <<located, located_entries>>

getEntryVars == <<entry_wayfinder, slice_entry, reader_entry>>

writeVars == <<files, count, output, output_base, entry_writer, data_writer, written,
               write_result, central_directory_offset, central_directory_end, sink_room>>

zipReaderVars == <<zip_reader, zip_reader_buf, zip_reader_read>>

locateReaderVars == <<reader_archive, slice_archive>>

timeVars == <<modification_time, timestamp_field, last_modified>>

modeVars == <<unix_permissions, entry_name, central_attrs, entry_mode>>

civilVars == <<dos_fields, unix_seconds, civil_time, seconds_back>>

mutexVars == <<stream_position, mutex_owner, read_calls>>

vars == <<pc, data, buffer, scanVars, verifyVars, entriesVars, pathVars, locateVars,
          getEntryVars, writeVars, zipReaderVars, locateReaderVars, timeVars, modeVars,
      civilVars, mutexVars>>

\* what each component leaves alone
notScanVars == <<verifyVars, entriesVars, pathVars, locateVars, getEntryVars, writeVars, zipReaderVars,
      locateReaderVars, timeVars, modeVars, civilVars, mutexVars>>

notVerifyVars ==
    <<data, buffer, scanVars, entriesVars, pathVars, locateVars, getEntryVars, writeVars,
      zipReaderVars, locateReaderVars, timeVars, modeVars, civilVars, mutexVars>>

notEntriesVars == <<scanVars, verifyVars, pathVars, locateVars, getEntryVars, writeVars, zipReaderVars,
      locateReaderVars, timeVars, modeVars, civilVars, mutexVars>>

notPathVars ==
    <<data, buffer, scanVars, verifyVars, entriesVars, locateVars, getEntryVars, writeVars,
      zipReaderVars, locateReaderVars, timeVars, modeVars, civilVars, mutexVars>>

notLocateVars == <<buffer, scanVars, verifyVars, entriesVars, pathVars, getEntryVars, writeVars,
      zipReaderVars, locateReaderVars, timeVars, modeVars, civilVars, mutexVars>>

notGetEntryVars ==
    <<data, buffer, scanVars, verifyVars, entriesVars, pathVars, locateVars, writeVars,
      zipReaderVars, locateReaderVars, timeVars, modeVars, civilVars, mutexVars>>

notWriteVars ==
    <<data, buffer, scanVars, verifyVars, entriesVars, pathVars, locateVars, getEntryVars,
      zipReaderVars, locateReaderVars, timeVars, modeVars, civilVars, mutexVars>>

notZipReaderVars ==
    <<data, buffer, scanVars, verifyVars, entriesVars, pathVars, locateVars,
      getEntryVars, writeVars, locateReaderVars, timeVars, modeVars, civilVars,
      mutexVars>>

notLocateReaderVars ==
    <<data, buffer, scanVars, verifyVars, entriesVars, pathVars, locateVars,
      getEntryVars, writeVars, zipReaderVars, timeVars, modeVars, civilVars, mutexVars>>

notTimeVars ==
    <<data, buffer, scanVars, verifyVars, entriesVars, pathVars, locateVars,
      getEntryVars, writeVars, zipReaderVars, locateReaderVars, modeVars, civilVars,
      mutexVars>>

notModeVars ==
    <<data, buffer, scanVars, verifyVars, entriesVars, pathVars, locateVars,
      getEntryVars, writeVars, zipReaderVars, locateReaderVars, timeVars, civilVars,
      mutexVars>>

notCivilVars ==
    <<data, buffer, scanVars, verifyVars, entriesVars, pathVars, locateVars,
      getEntryVars, writeVars, zipReaderVars, locateReaderVars, timeVars, modeVars,
      mutexVars>>

notMutexVars ==
    <<data, buffer, scanVars, verifyVars, entriesVars, pathVars, locateVars,
      getEntryVars, writeVars, zipReaderVars, locateReaderVars, timeVars, modeVars,
      civilVars>>

-----------------------------------------------------------------------------
(* Helpers for 0-based slices.                                             *)

Min(a, b) == IF a <= b THEN a ELSE b

Max(a, b) == IF a >= b THEN a ELSE b

\* a.saturating_sub(b) on unsigned integers
saturating_sub(a, b) == IF a >= b THEN a - b ELSE 0

\* the Rust slice s[a..b]
Slice(s, a, b) == SubSeq(s, a + 1, b)

\* the Rust slice s[a..]
SliceFrom(s, a) == SubSeq(s, a + 1, Len(s))

\* n zero bytes: vec![0u8; n]
Zeros(n) == [i \in 1..n |-> 0]

\* all sequences over S of length at most n
RECURSIVE SeqsUpTo(_, _)
SeqsUpTo(S, n) ==
    IF n = 0 THEN {<<>>}
    ELSE LET shorter == SeqsUpTo(S, n - 1)
         IN  shorter \cup {Append(s, x) : s \in {t \in shorter : Len(t) = n - 1}, x \in S}

\* results are tagged tuples: Option's None and Some(x), Result's Ok(x) and
\* Err(e), a panic, and NotYet while the operation has not returned
None == <<"None">>

Some(x) == <<"Some", x>>

Ok(x) == <<"Ok", x>>

Err(e) == <<"Err", e>>

Panic == <<"panic">>

NotYet == <<"not yet">>

\* std::io::ErrorKind::UnexpectedEof; errors are tagged tuples as well
UnexpectedEof == <<"io", "UnexpectedEof">>

IsSome(r) == r[1] = "Some"

IsOk(r) == r[1] = "Ok"

IsErr(r) == r[1] = "Err"

-----------------------------------------------------------------------------
(* Little-endian integer fields.  Sizes, offsets and counts are scaled: a  *)
(* byte of an integer field holds RADIX values (256 in the program), so a  *)
(* u16 ends at RADIX^2 - 1, a u32 at RADIX^4 - 1 and a u64 at RADIX^8 - 1  *)
(* and the ZIP64 thresholds are within reach.  Structure sizes, signatures *)
(* and checksums keep the program's values.                                *)

RADIX == 7

U16_MAX == RADIX ^ 2 - 1

U32_MAX == RADIX ^ 4 - 1

U64_MAX == RADIX ^ 8 - 1

\* uN::from_le_bytes over the first Len(d) bytes
RECURSIVE from_le_bytes(_)
from_le_bytes(d) == IF d = <<>> THEN 0 ELSE d[1] + RADIX * from_le_bytes(Tail(d))

le_u16(d) == from_le_bytes(Slice(d, 0, 2))

le_u32(d) == from_le_bytes(Slice(d, 0, 4))

le_u64(d) == from_le_bytes(Slice(d, 0, 8))

\* n.to_le_bytes() for an integer of k bytes
RECURSIVE to_le_bytes(_, _)
to_le_bytes(n, k) ==
    IF k = 0 THEN <<>> ELSE <<n % RADIX>> \o to_le_bytes(n \div RADIX, k - 1)

-----------------------------------------------------------------------------
(* 32-bit words as tuples of 32 bits, least significant first, and the     *)
(* CRC-32 of crc.rs computed on them.                                      *)

WORD_BITS == 32

BYTE_BITS == 8

Bit(n, i) == (n \div (2 ^ i)) % 2

\* u32::from(x) for a byte x
U32FromByte(x) == [i \in 1..WORD_BITS |-> IF i <= BYTE_BITS THEN Bit(x, i - 1) ELSE 0]

\* the word written as 8 hexadecimal digits, most significant first
U32FromHex(digits) == [i \in 1..WORD_BITS |-> Bit(digits[8 - ((i - 1) \div 4)], (i - 1) % 4)]

Zero32 == [i \in 1..WORD_BITS |-> 0]

\* a ^ b
Xor32(a, b) == [i \in 1..WORD_BITS |-> (a[i] + b[i]) % 2]

\* a >> n
Shr32(a, n) == [i \in 1..WORD_BITS |-> IF i + n <= WORD_BITS THEN a[i + n] ELSE 0]

\* !a
Not32(a) == [i \in 1..WORD_BITS |-> 1 - a[i]]

\* a & 0xFF
Low8(a) == [i \in 1..WORD_BITS |-> IF i <= BYTE_BITS THEN a[i] ELSE 0]

\* le_u32(d) of a checksum field: the word of its four bytes
crc_le_u32(d) == [i \in 1..WORD_BITS |-> Bit(d[((i - 1) \div BYTE_BITS) + 1], (i - 1) % BYTE_BITS)]

\* the byte of the word's bits k+1..k+8
RECURSIVE ByteOfBits(_, _, _)
ByteOfBits(a, k, i) ==
    IF i > BYTE_BITS THEN 0 ELSE a[k + i] * (2 ^ (i - 1)) + ByteOfBits(a, k, i + 1)

\* crc.to_le_bytes()
crc_to_le_bytes(a) == [k \in 1..(WORD_BITS \div BYTE_BITS) |-> ByteOfBits(a, BYTE_BITS * (k - 1), 1)]

\* gen_crc_table: poly = 0xEDB88320
CRC_POLY == U32FromHex(<<14, 13, 11, 8, 8, 3, 2, 0>>)

\* gen_crc_table: j turns of the inner loop on crc
RECURSIVE CrcTableTurns(_, _)
CrcTableTurns(c, j) ==
    IF j = 0 THEN c
    ELSE CrcTableTurns(IF c[1] # 0 THEN Xor32(Shr32(c, 1), CRC_POLY) ELSE Shr32(c, 1), j - 1)

\* CRC_TABLE[0][i], the index i given as a word
CRC_TABLE0(i) == CrcTableTurns(i, BYTE_BITS)

\* crc32_chunk, the fold over the remainder of chunks_exact(16): all of the
\* data when it is shorter than 16 bytes
RECURSIVE CrcFold(_, _)
CrcFold(c, d) ==
    IF d = <<>> THEN c
    ELSE CrcFold(Xor32(Shr32(c, BYTE_BITS), CRC_TABLE0(Xor32(U32FromByte(d[1]), Low8(c)))), Tail(d))

crc32_chunk(d, prev) == Not32(CrcFold(Not32(prev), d))

crc32(d) == crc32_chunk(d, Zero32)

-----------------------------------------------------------------------------
(* The values of each component's variables while it is not in use.        *)

ScanIdle ==
    /\ max_search_space = 0
    /\ offset = 0
    /\ remaining = 0
    /\ carry_over = 0
    /\ read_size = 0
    /\ location_result = NotYet

NoWayfinder ==
    [uncompressed_size |-> 0, compressed_size |-> 0, local_header_offset |-> 0,
     crc |-> Zero32, has_data_descriptor |-> FALSE]

VerifyIdle ==
    /\ verifier_kind = "none"
    /\ wayfinder = NoWayfinder
    /\ descriptor = NotYet
    /\ verifier = None
    /\ reader = <<>>
    /\ consumed = <<>>
    /\ crc = Zero32
    /\ size = 0
    /\ read = 0
    /\ read_result = NotYet

EntriesIdle ==
    /\ entry_data = <<>>
    /\ slice_records = <<>>
    /\ slice_result = NotYet
    /\ pos = 0
    /\ end = 0
    /\ entries_offset = 0
    /\ base_offset = 0
    /\ central_dir_end_pos = 0
    /\ reader_records = <<>>
    /\ reader_result = NotYet

PathIdle ==
    /\ name = <<>>
    /\ normalized = NotYet

LocateIdle ==
    /\ located = NotYet
    /\ located_entries = NotYet

GetEntryIdle ==
    /\ entry_wayfinder = NoWayfinder
    /\ slice_entry = NotYet
    /\ reader_entry = NotYet

NoDataWriter == [uncompressed_bytes |-> 0, crc |-> Zero32]

\* the room of a sink that takes every byte it is given
NoLimit == -1

WriteIdle ==
    /\ files = <<>>
    /\ count = 0
    /\ output = <<>>
    /\ output_base = 0
    /\ entry_writer = None
    /\ data_writer = NoDataWriter
    /\ written = <<>>
    /\ write_result = NotYet
    /\ central_directory_offset = 0
    /\ central_directory_end = 0
    /\ sink_room = NoLimit

ZipReaderIdle ==
    /\ zip_reader = None
    /\ zip_reader_buf = 0
    /\ zip_reader_read = NotYet

LocateReaderIdle ==
    /\ reader_archive = NotYet
    /\ slice_archive = NotYet

TimeIdle ==
    /\ modification_time = NotYet
    /\ timestamp_field = <<>>
    /\ last_modified = NotYet

ModeIdle ==
    /\ unix_permissions = NotYet
    /\ entry_name = <<>>
    /\ central_attrs = <<>>
    /\ entry_mode = NotYet

CivilIdle ==
    /\ dos_fields = NotYet
    /\ unix_seconds = NotYet
    /\ civil_time = NotYet
    /\ seconds_back = NotYet

MutexIdle ==
    /\ stream_position = 0
    /\ mutex_owner = None
    /\ read_calls = <<>>

-----------------------------------------------------------------------------
(* The end-of-central-directory signature scan (locator.rs).               *)

\* bound of the scan's inputs: the longest data tried exhaustively
MaxDataLen == 5

\* the bytes the scanned data is made of: the signature's own and one other
ScanBytes == {80, 75, 5, 6, 0}

\* END_OF_CENTRAL_DIR_SIGNAUTRE.to_le_bytes(): "PK\x05\x06"
END_OF_CENTRAL_DIR_SIGNAUTRE_BYTES == <<80, 75, 5, 6>>

\* the scratch buffers tried: one too short for the signature, one that just
\* holds it, one longer, and one that holds two signatures
ScanBufLens ==
    (Len(END_OF_CENTRAL_DIR_SIGNAUTRE_BYTES) - 1)..(Len(END_OF_CENTRAL_DIR_SIGNAUTRE_BYTES) + 1)
        \cup {2 * Len(END_OF_CENTRAL_DIR_SIGNAUTRE_BYTES) + 1}

\* the data scanned: every short byte string, the strings that hold the
\* signature twice with at most a byte before, between and after, and the
\* strings where the signature is followed by a block of buffer length that
\* begins with the signature's last byte
ScanData ==
    SeqsUpTo(ScanBytes, MaxDataLen) \cup
    {a \o END_OF_CENTRAL_DIR_SIGNAUTRE_BYTES \o b \o END_OF_CENTRAL_DIR_SIGNAUTRE_BYTES \o c :
        a \in SeqsUpTo(ScanBytes, 1), b \in SeqsUpTo(ScanBytes, 1), c \in SeqsUpTo(ScanBytes, 1)} \cup
    {END_OF_CENTRAL_DIR_SIGNAUTRE_BYTES \o <<END_OF_CENTRAL_DIR_SIGNAUTRE_BYTES[4]>> \o b :
        b \in {<<b1, b2>> \o Zeros(2) : b1 \in ScanBytes, b2 \in ScanBytes}}

\* haystack.windows(needle.len()).rposition(|w| w == needle)
backwards_find(haystack, needle) ==
    LET hits == {i \in 0..(Len(haystack) - Len(needle)) :
                    Slice(haystack, i, i + Len(needle)) = needle}
    IN  IF hits = {} THEN None
        ELSE Some(CHOOSE i \in hits : \A j \in hits : j <= i)

\* find_end_of_central_dir_signature(data, max_search_space)
find_end_of_central_dir_signature(d, max_search) ==
    LET start_search == saturating_sub(Len(d), max_search)
        r == backwards_find(SliceFrom(d, start_search), END_OF_CENTRAL_DIR_SIGNAUTRE_BYTES)
    IN  IF r = None THEN None ELSE Some(r[2] + start_search)

\* the carry_over match of find_end_of_central_dir: how much of the
\* signature's end the start of the buffer matches
CarryOverNone(buf) == 0

CarryOver(buf) ==
    IF Len(buf) >= 3 /\ Slice(buf, 0, 3) = Slice(END_OF_CENTRAL_DIR_SIGNAUTRE_BYTES, 1, 4) THEN 3
    ELSE IF Len(buf) >= 2 /\ Slice(buf, 0, 2) = Slice(END_OF_CENTRAL_DIR_SIGNAUTRE_BYTES, 2, 4) THEN 2
    ELSE IF Len(buf) >= 1 /\ buf[1] = END_OF_CENTRAL_DIR_SIGNAUTRE_BYTES[4] THEN 1
    ELSE 0

\* buf[..n].copy_from_slice(src): the first n bytes replaced
WritePrefix(buf, src) ==
    [i \in 1..Len(buf) |-> IF i <= Len(src) THEN src[i] ELSE buf[i]]

\* a copy_within that moves nothing
copy_within_nothing(buf, n, dest) == buf

\* buf.copy_within(..n, dest)
copy_within_prefix(buf, n, dest) ==
    [i \in 1..Len(buf) |-> IF i > dest /\ i <= dest + n THEN buf[i - dest] ELSE buf[i]]

\* reader.read_exact_at(&mut buf[..n], off) on a reader over d: the bytes,
\* or an error when the reader ends first
read_exact_at(d, n, off) ==
    IF off + n <= Len(d) THEN Ok(Slice(d, off, off + n)) ELSE Err(UnexpectedEof)

\* the inputs of the scan: any data, any buffer, any search bound
InitScan ==
    /\ pc = "find_start"
    /\ data \in ScanData
    /\ buffer \in {Zeros(n) : n \in ScanBufLens}
    /\ max_search_space \in 0..(Len(data) + 1)
    /\ offset = 0
    /\ remaining = 0
    /\ carry_over = 0
    /\ read_size = 0
    /\ location_result = NotYet
    /\ VerifyIdle
    /\ EntriesIdle
    /\ PathIdle
    /\ LocateIdle
    /\ GetEntryIdle
    /\ WriteIdle
    /\ ZipReaderIdle
    /\ LocateReaderIdle
    /\ TimeIdle
    /\ ModeIdle
    /\ CivilIdle
    /\ MutexIdle

\* find_end_of_central_dir, entry: a buffer shorter than the signature fails
\* the debug assertion (debug build) or finds nothing (release build)
FindBufferTooSmall ==
    /\ pc = "find_start"
    /\ Len(buffer) < Len(END_OF_CENTRAL_DIR_SIGNAUTRE_BYTES)
    /\ location_result' \in {None, Panic}
    /\ pc' = "find_done"
    /\ UNCHANGED <<data, buffer, max_search_space, offset, remaining, carry_over, read_size>>
    /\ UNCHANGED notScanVars

\* find_end_of_central_dir, entry with end_offset = data.len()
FindBegin ==
    /\ pc = "find_start"
    /\ Len(buffer) >= Len(END_OF_CENTRAL_DIR_SIGNAUTRE_BYTES)
    /\ offset' = Len(data)
    /\ remaining' = Len(data) - saturating_sub(Len(data), max_search_space)
    /\ carry_over' = 0
    /\ pc' = "find_loop"
    /\ UNCHANGED <<data, buffer, max_search_space, read_size, location_result>>
    /\ UNCHANGED notScanVars

\* find_end_of_central_dir, one turn of the loop
FindLoop ==
    /\ pc = "find_loop"
    /\ LET max_back == saturating_sub(Len(data), max_search_space)
           rs == Min(Len(buffer) - carry_over, remaining)
           off == offset - rs
           rd == read_exact_at(data, rs, off)
       IN  IF ~IsOk(rd)
           THEN /\ location_result' = Err(UnexpectedEof)
                /\ pc' = "find_done"
                /\ UNCHANGED <<buffer, offset, remaining, carry_over, read_size>>
           ELSE LET buf1 == WritePrefix(buffer, rd[2])
                    rem == remaining - rs
                    haystack == Slice(buf1, 0, rs + carry_over)
                    hit == backwards_find(haystack, END_OF_CENTRAL_DIR_SIGNAUTRE_BYTES)
                    carry == CarryOver(buf1)
                    dest == Min(Len(buf1) - carry, rem)
                IN  /\ offset' = off
                    /\ remaining' = rem
                    /\ read_size' = rs
                    /\ IF hit # None
                       THEN /\ location_result' = Some(<<(max_back + rem) + hit[2], hit[2], rs + carry_over>>)
                            /\ buffer' = buf1
                            /\ pc' = "find_done"
                            /\ UNCHANGED carry_over
                       ELSE IF rem = 0
                       THEN /\ location_result' = None
                            /\ buffer' = buf1
                            /\ pc' = "find_done"
                            /\ UNCHANGED carry_over
                       ELSE /\ carry_over' = carry
                            /\ buffer' = IF carry > 0 THEN copy_within_prefix(buf1, carry, dest) ELSE buf1
                            /\ UNCHANGED <<pc, location_result>>
    /\ UNCHANGED <<data, max_search_space>>
    /\ UNCHANGED notScanVars

NextScan ==
    \/ FindBufferTooSmall
    \/ FindBegin
    \/ FindLoop

SpecScan == InitScan /\ [][NextScan]_vars

\* the position the scan reported, or None
FoundPos(r) == IF IsSome(r) THEN Some(r[2][1]) ELSE r

\* the largest p with p >= max(0, |D| - M), p + 4 <= |D| and D[p..p+4] the signature
LastSignatureInWindow(d, m) ==
    LET ps == {p \in Max(0, Len(d) - m)..(Len(d) - 4) :
                  Slice(d, p, p + 4) = END_OF_CENTRAL_DIR_SIGNAUTRE_BYTES}
    IN  IF ps = {} THEN None ELSE Some(CHOOSE p \in ps : \A q \in ps : q <= p)

\* C1: with a buffer of at least 4 bytes, the backward scan of the reader
\* locator and the slice scan return the same result, the largest position
\* of the signature inside the search window, or both find nothing.
C1_ScanEquivalence ==
    (pc = "find_done" /\ Len(buffer) >= 4) =>
        /\ FoundPos(location_result) = find_end_of_central_dir_signature(data, max_search_space)
        /\ FoundPos(location_result) = LastSignatureInWindow(data, max_search_space)

\* C1 witness: the scan found a signature that straddles two backward reads
\* (its first bytes come from the last read, its last bytes were carried over)
C1_Witness ==
    /\ pc = "find_done"
    /\ IsSome(location_result)
    /\ carry_over > 0
    /\ location_result[2][2] < read_size
    /\ location_result[2][2] + 4 > read_size

\* C16: a found signature comes with (stream_pos, buffer_index,
\* buffer_valid_len) such that buffer_index + 4 <= buffer_valid_len <=
\* buffer.len(), the signature stands at buffer_index, and every byte of
\* the buffer below buffer_valid_len is the stream's byte at stream_pos -
\* buffer_index + k, the carried-over bytes included.
C16_BufferMirrorsStream ==
    (pc = "find_done" /\ IsSome(location_result)) =>
        LET stream_pos == location_result[2][1]
            buffer_index == location_result[2][2]
            buffer_valid_len == location_result[2][3]
        IN  /\ buffer_index + 4 <= buffer_valid_len
            /\ buffer_valid_len <= Len(buffer)
            /\ Slice(buffer, buffer_index, buffer_index + 4)
                   = END_OF_CENTRAL_DIR_SIGNAUTRE_BYTES
            /\ \A k \in 0..(buffer_valid_len - 1) :
                   /\ stream_pos - buffer_index + k >= 0
                   /\ stream_pos - buffer_index + k < Len(data)
                   /\ buffer[k + 1] = data[stream_pos - buffer_index + k + 1]

\* a signature found across a read boundary: its end was carried over
C16_Witness ==
    /\ pc = "find_done"
    /\ IsSome(location_result)
    /\ carry_over > 0
    /\ location_result[2][2] < read_size
    /\ read_size < location_result[2][2] + 4
    /\ location_result[2][3] = read_size + carry_over

-----------------------------------------------------------------------------
(* The verifying readers: ZipSliceVerifier and ZipVerifier (archive.rs).   *)

\* bounds of the verifying readers' inputs: the longest content the wrapped
\* reader delivers, and the most bytes one read returns
MaxContentLen == 3

MaxReadLen == 2

\* the bytes the content is made of
ContentBytes == {0, 1}

\* the checksums an archive records: none (zero) and those of short contents
RecordedCrcs == {crc32(c) : c \in SeqsUpTo(ContentBytes, 1)}

\* ErrorKind::InvalidSize and ErrorKind::InvalidChecksum
InvalidSize(expected, actual) == <<"InvalidSize", expected, actual>>

InvalidChecksum(expected, actual) == <<"InvalidChecksum", expected, actual>>

ZipVerification(c, n) == [crc |-> c, uncompressed_size |-> n]

\* ZipVerification::valid without its comparison of the sizes
valid_ignoring_size(self, rhs) ==
    IF self.crc # Zero32 /\ self.crc # rhs.crc
    THEN Err(InvalidChecksum(self.crc, rhs.crc))
    ELSE Ok(<<>>)

\* ZipVerification::valid(&self, rhs)
valid(self, rhs) ==
    IF self.uncompressed_size # rhs.uncompressed_size
    THEN Err(InvalidSize(self.uncompressed_size, rhs.uncompressed_size))
    ELSE IF self.crc # Zero32 /\ self.crc # rhs.crc
    THEN Err(InvalidChecksum(self.crc, rhs.crc))
    ELSE Ok(<<>>)

\* .map_err(|e| std::io::Error::new(std::io::ErrorKind::InvalidData, e))
InvalidData(r) == IF IsErr(r) THEN Err(<<"InvalidData", r[2]>>) ELSE r

\* the expected ZipVerification that ZipSliceArchive::get_entry hands to the
\* slice entry: the data descriptor's checksum when the entry has one
SliceEntryVerifier(w, d) ==
    ZipVerification(IF w.has_data_descriptor THEN d[2] ELSE w.crc, w.uncompressed_size)

\* an entry and a wrapped reader; a slice entry exists only when get_entry
\* could parse its data descriptor
InitVerify ==
    /\ pc = "verifying"
    /\ data = <<>>
    /\ buffer = <<>>
    /\ ScanIdle
    /\ EntriesIdle
    /\ PathIdle
    /\ LocateIdle
    /\ GetEntryIdle
    /\ WriteIdle
    /\ verifier_kind \in {"ZipSliceVerifier", "ZipVerifier"}
    /\ \E c \in RecordedCrcs, n \in 0..(MaxContentLen + 1), dd \in BOOLEAN :
          wayfinder = [uncompressed_size |-> n, compressed_size |-> 0,
                       local_header_offset |-> 0, crc |-> c, has_data_descriptor |-> dd]
    /\ descriptor \in IF wayfinder.has_data_descriptor
                      THEN {Err(UnexpectedEof)} \cup {Ok(c) : c \in RecordedCrcs}
                      ELSE {NotYet}
    /\ verifier_kind = "ZipSliceVerifier" => ~IsErr(descriptor)
    /\ verifier = IF verifier_kind = "ZipSliceVerifier"
                  THEN Some(SliceEntryVerifier(wayfinder, descriptor))
                  ELSE None
    /\ reader \in SeqsUpTo(ContentBytes, MaxContentLen)
    /\ consumed = <<>>
    /\ crc = Zero32
    /\ size = 0
    /\ read = 0
    /\ read_result = NotYet
    /\ ZipReaderIdle
    /\ LocateReaderIdle
    /\ TimeIdle
    /\ ModeIdle
    /\ CivilIdle
    /\ MutexIdle

\* <ZipSliceVerifier as Read>::read, the wrapped reader returning n bytes
SliceVerifierRead(n) ==
    /\ pc = "verifying"
    /\ verifier_kind = "ZipSliceVerifier"
    /\ LET chunk == Slice(reader, 0, n)
           crc1 == crc32_chunk(chunk, crc)
           size1 == size + n
       IN  /\ reader' = SliceFrom(reader, n)
           /\ consumed' = consumed \o chunk
           /\ crc' = crc1
           /\ size' = size1
           /\ read' = n
           /\ read_result' =
                  IF n = 0 \/ size1 >= verifier[2].uncompressed_size
                  THEN LET r == InvalidData(valid(verifier[2], ZipVerification(crc1, size1)))
                       IN  IF IsErr(r) THEN r ELSE Ok(n)
                  ELSE Ok(n)
    /\ UNCHANGED <<pc, verifier_kind, wayfinder, descriptor, verifier>>
    /\ UNCHANGED notVerifyVars

\* <ZipVerifier as Read>::read, the wrapped reader returning n bytes
ZipVerifierRead(n) ==
    /\ pc = "verifying"
    /\ verifier_kind = "ZipVerifier"
    /\ LET chunk == Slice(reader, 0, n)
           crc1 == crc32_chunk(chunk, crc)
           size1 == size + n
           crc_read == IF wayfinder.has_data_descriptor THEN descriptor ELSE Ok(crc1)
           expected == ZipVerification(crc1, wayfinder.uncompressed_size)
       IN  /\ reader' = SliceFrom(reader, n)
           /\ consumed' = consumed \o chunk
           /\ crc' = crc1
           /\ size' = size1
           /\ read' = n
           /\ read_result' =
                  IF n = 0 \/ size1 >= wayfinder.uncompressed_size
                  THEN LET r == InvalidData(
                                  IF IsErr(crc_read) THEN crc_read
                                  ELSE valid(expected, ZipVerification(crc_read[2], size1)))
                       IN  IF IsErr(r) THEN r ELSE Ok(n)
                  ELSE Ok(n)
    /\ UNCHANGED <<pc, verifier_kind, wayfinder, descriptor, verifier>>
    /\ UNCHANGED notVerifyVars

\* the sizes of the reads the wrapped reader can answer: up to what it has
\* left, zero bytes at its end or into an empty buf
ReadLens == 0..Min(Len(reader), MaxReadLen)

NextVerify ==
    \/ \E n \in ReadLens : SliceVerifierRead(n)
    \/ \E n \in ReadLens : ZipVerifierRead(n)

SpecVerify == InitVerify /\ [][NextVerify]_vars

\* the last read made the end-of-stream check
Checked == read_result # NotYet /\ (read = 0 \/ size >= wayfinder.uncompressed_size)

\* C2: for an entry without a data descriptor, a verifying reader of either
\* kind that reaches the end of the stream with the declared number of bytes
\* fails with InvalidChecksum when the checksum the central directory records
\* is nonzero and differs from the CRC-32 of the bytes read.
C2_RecordedChecksumChecked ==
    (/\ Checked
     /\ ~wayfinder.has_data_descriptor
     /\ size = wayfinder.uncompressed_size
     /\ wayfinder.crc # Zero32
     /\ wayfinder.crc # crc32(consumed))
        => read_result = Err(<<"InvalidData", InvalidChecksum(wayfinder.crc, crc32(consumed))>>)

\* the wrapped reader ended early, or delivered more than declared
SizeMismatch ==
    \/ read = 0 /\ reader = <<>> /\ size < wayfinder.uncompressed_size
    \/ size > wayfinder.uncompressed_size

\* ZipVerifier cannot read the entry's data descriptor
DescriptorUnreadable ==
    verifier_kind = "ZipVerifier" /\ wayfinder.has_data_descriptor /\ IsErr(descriptor)

\* C3 as stated: a read never returns a clean Ok(0) unless the bytes counted
\* equal the declared size, and a wrapped reader that ends early or delivers
\* too much makes the read fail with InvalidSize{declared, counted} as an
\* InvalidData error.
C3_SizeMismatchIsInvalidSize ==
    read_result # NotYet =>
        /\ read_result = Ok(0) => size = wayfinder.uncompressed_size
        /\ SizeMismatch =>
              read_result = Err(<<"InvalidData", InvalidSize(wayfinder.uncompressed_size, size)>>)

\* C3 amended: the same, except that ZipVerifier reads the data descriptor
\* before it compares the sizes, so an unreadable descriptor surfaces that
\* read's error (still as InvalidData) in place of InvalidSize.
C3_SizeMismatchFails ==
    read_result # NotYet =>
        /\ read_result = Ok(0) => size = wayfinder.uncompressed_size
        /\ SizeMismatch =>
              read_result =
                  IF DescriptorUnreadable
                  THEN Err(<<"InvalidData", descriptor[2]>>)
                  ELSE Err(<<"InvalidData", InvalidSize(wayfinder.uncompressed_size, size)>>)

\* C3 witness: a ZipVerifier whose wrapped reader ended before the declared
\* size, the read failing with InvalidSize
C3_Witness ==
    /\ verifier_kind = "ZipVerifier"
    /\ read = 0
    /\ reader = <<>>
    /\ size < wayfinder.uncompressed_size
    /\ consumed # <<>>
    /\ read_result = Err(<<"InvalidData", InvalidSize(wayfinder.uncompressed_size, size)>>)

-----------------------------------------------------------------------------
(* Central directory records and the two iterators over them (archive.rs). *)

\* CENTRAL_HEADER_SIGNATURE.to_le_bytes(): "PK\x01\x02"
CENTRAL_HEADER_SIGNATURE_BYTES == <<80, 75, 1, 2>>

\* ZipFileHeaderFixed::SIZE
ZipFileHeaderFixed_SIZE == 46

\* ErrorKind::Eof, ErrorKind::BufferTooSmall, ErrorKind::InvalidSignature
Eof == <<"Eof">>

BufferTooSmall == <<"BufferTooSmall">>

InvalidSignature(expected, actual) == <<"InvalidSignature", expected, actual>>

\* ZipFileHeaderFixed::parse(data); the signature stays as its four bytes
ZipFileHeaderFixed_parse(d) ==
    IF Len(d) < ZipFileHeaderFixed_SIZE THEN Err(Eof)
    ELSE LET result ==
                 [signature |-> Slice(d, 0, 4),
                  version_made_by |-> le_u16(Slice(d, 4, 6)),
                  version_needed |-> le_u16(Slice(d, 6, 8)),
                  flags |-> le_u16(Slice(d, 8, 10)),
                  compression_method |-> le_u16(Slice(d, 10, 12)),
                  last_mod_time |-> le_u16(Slice(d, 12, 14)),
                  last_mod_date |-> le_u16(Slice(d, 14, 16)),
                  crc32 |-> crc_le_u32(Slice(d, 16, 20)),
                  compressed_size |-> le_u32(Slice(d, 20, 24)),
                  uncompressed_size |-> le_u32(Slice(d, 24, 28)),
                  file_name_len |-> le_u16(Slice(d, 28, 30)),
                  extra_field_len |-> le_u16(Slice(d, 30, 32)),
                  file_comment_len |-> le_u16(Slice(d, 32, 34)),
                  disk_number_start |-> le_u16(Slice(d, 34, 36)),
                  internal_file_attrs |-> le_u16(Slice(d, 36, 38)),
                  external_file_attrs |-> le_u32(Slice(d, 38, 42)),
                  local_header_offset |-> le_u32(Slice(d, 42, 46))]
         IN  IF result.signature # CENTRAL_HEADER_SIGNATURE_BYTES
             THEN Err(InvalidSignature(CENTRAL_HEADER_SIGNATURE_BYTES, result.signature))
             ELSE Ok(result)

\* ZipFileHeaderFixed::variable_length
variable_length(h) == h.file_name_len + h.extra_field_len + h.file_comment_len

\* ZipFileHeaderFixed::parse_variable_length(data):
\* (file_name, extra_field, file_comment, rest) or None
parse_variable_length(h, d) ==
    IF Len(d) < h.file_name_len THEN None
    ELSE LET rest1 == SliceFrom(d, h.file_name_len)
         IN  IF Len(rest1) < h.extra_field_len THEN None
             ELSE LET rest2 == SliceFrom(rest1, h.extra_field_len)
                  IN  IF Len(rest2) < h.file_comment_len THEN None
                      ELSE Some(<<Slice(d, 0, h.file_name_len),
                                  Slice(rest1, 0, h.extra_field_len),
                                  Slice(rest2, 0, h.file_comment_len),
                                  SliceFrom(rest2, h.file_comment_len)>>)

\* const ZIP64_EXTRA_FIELD: u16 = 0x0001
ZIP64_EXTRA_FIELD == 1

\* ZipFileHeaderRecord::from_parts, the body of the ZIP64 extra field: the
\* 64-bit values in the order uncompressed size, compressed size, local
\* header offset, disk number, each present when the header holds the
\* sentinel; a missing value ends the parse and keeps what was read
Zip64FieldValues(header, result, field) ==
    LET r0 == [result EXCEPT !.is_zip64 = TRUE]
        want1 == header.uncompressed_size = U32_MAX
        ok1 == ~want1 \/ Len(field) >= 8
        r1 == IF want1 /\ ok1 THEN [r0 EXCEPT !.uncompressed_size = le_u64(field)] ELSE r0
        f1 == IF want1 /\ ok1 THEN SliceFrom(field, 8) ELSE field
        want2 == header.compressed_size = U32_MAX
        ok2 == ok1 /\ (~want2 \/ Len(f1) >= 8)
        r2 == IF ok1 /\ want2 /\ ok2 THEN [r1 EXCEPT !.compressed_size = le_u64(f1)] ELSE r1
        f2 == IF ok1 /\ want2 /\ ok2 THEN SliceFrom(f1, 8) ELSE f1
        want3 == header.local_header_offset = U32_MAX
        ok3 == ok2 /\ (~want3 \/ Len(f2) >= 8)
        r3 == IF ok2 /\ want3 /\ ok3 THEN [r2 EXCEPT !.local_header_offset = le_u64(f2)] ELSE r2
        f3 == IF ok2 /\ want3 /\ ok3 THEN SliceFrom(f2, 8) ELSE f2
        want4 == header.disk_number_start = U16_MAX
        ok4 == ok3 /\ (~want4 \/ Len(f3) >= 4)
    IN  IF ok3 /\ want4 /\ ok4 THEN [r3 EXCEPT !.disk_number_start = le_u32(f3)] ELSE r3

\* ZipFileHeaderRecord::from_parts, the loop over the extra fields
RECURSIVE Zip64ExtraLoop(_, _, _)
Zip64ExtraLoop(header, result, extra_fields) ==
    IF Len(extra_fields) < 4 THEN result
    ELSE LET kind == le_u16(Slice(extra_fields, 0, 2))
             field_size == le_u16(Slice(extra_fields, 2, 4))
             after == SliceFrom(extra_fields, 4)
             end_pos == Min(field_size, Len(after))
         IN  IF kind # ZIP64_EXTRA_FIELD
             THEN Zip64ExtraLoop(header, result, SliceFrom(after, end_pos))
             ELSE Zip64FieldValues(header, result, Slice(after, 0, end_pos))

\* ZipFileHeaderRecord::from_parts(header, file_name, extra_field, file_comment)
from_parts(header, file_name, extra_field, file_comment) ==
    LET result == [signature |-> header.signature,
                   version_made_by |-> header.version_made_by,
                   version_needed |-> header.version_needed,
                   flags |-> header.flags,
                   compression_method |-> header.compression_method,
                   last_mod_time |-> header.last_mod_time,
                   last_mod_date |-> header.last_mod_date,
                   crc32 |-> header.crc32,
                   compressed_size |-> header.compressed_size,
                   uncompressed_size |-> header.uncompressed_size,
                   file_name_len |-> header.file_name_len,
                   extra_field_len |-> header.extra_field_len,
                   file_comment_len |-> header.file_comment_len,
                   disk_number_start |-> header.disk_number_start,
                   internal_file_attrs |-> header.internal_file_attrs,
                   external_file_attrs |-> header.external_file_attrs,
                   local_header_offset |-> header.local_header_offset,
                   file_name |-> file_name,
                   extra_field |-> extra_field,
                   file_comment |-> file_comment,
                   is_zip64 |-> FALSE]
    IN  IF /\ result.uncompressed_size # U32_MAX
           /\ result.compressed_size # U32_MAX
           /\ result.local_header_offset # U32_MAX
           /\ result.disk_number_start # U16_MAX
        THEN result
        ELSE Zip64ExtraLoop(header, result, extra_field)

\* the fixed part of a central directory record with the given lengths and
\* local header offset, its other fields zero
CentralHeaderBytes(name_len, extra_len, comment_len, lho) ==
    CENTRAL_HEADER_SIGNATURE_BYTES \o Zeros(24) \o to_le_bytes(name_len, 2)
        \o to_le_bytes(extra_len, 2) \o to_le_bytes(comment_len, 2) \o Zeros(8)
        \o to_le_bytes(lho, 4)

\* bound of the iterators' inputs: the most records of a central directory
MaxRecords == 2

\* the lengths <<name, extra field, comment>> a record is tried with
RecordShapes == {<<0, 0, 0>>, <<1, 0, 0>>, <<0, 1, 0>>, <<0, 0, 1>>, <<1, 1, 1>>}

\* the i-th record of a central directory: the shape's lengths, filled with
\* 'a', an extra field byte and '!', and i - 1 as local header offset
CentralRecordBytes(shape, i) ==
    CentralHeaderBytes(shape[1], shape[2], shape[3], i - 1)
        \o [k \in 1..shape[1] |-> 97] \o [k \in 1..shape[2] |-> 9] \o [k \in 1..shape[3] |-> 33]

RECURSIVE CentralDirectoryBytes(_, _)
CentralDirectoryBytes(shapes, i) ==
    IF i > Len(shapes) THEN <<>>
    ELSE CentralRecordBytes(shapes[i], i) \o CentralDirectoryBytes(shapes, i + 1)

\* the longest record of a central directory, at least a bare header
RECURSIVE LongestRecord(_)
LongestRecord(shapes) ==
    IF shapes = <<>> THEN ZipFileHeaderFixed_SIZE
    ELSE Max(ZipFileHeaderFixed_SIZE + shapes[1][1] + shapes[1][2] + shapes[1][3],
             LongestRecord(Tail(shapes)))

\* buf.copy_within(a..b, 0)
copy_within_to_front(buf, a, b) ==
    [i \in 1..Len(buf) |-> IF i <= b - a THEN buf[a + i] ELSE buf[i]]

\* buf[at..][..Len(src)].copy_from_slice(src)
WriteAt(buf, at, src) ==
    [i \in 1..Len(buf) |-> IF i > at /\ i <= at + Len(src) THEN src[i - at] ELSE buf[i]]

\* reader.read_at_least_at(&mut buf[..buf_len], size, off) on a reader over
\* d: the bytes read.  A reader may return short reads: the call stops at
\* min_size bytes (short) or fills the buffer as far as the reader goes
read_at_least_at(d, buf_len, min_size, off, short) ==
    IF buf_len < min_size THEN Err(BufferTooSmall)
    ELSE LET avail == Min(saturating_sub(Len(d), off), buf_len)
             n == IF short THEN min_size ELSE avail
         IN  IF avail < min_size THEN Err(Eof) ELSE Ok(Slice(d, off, off + n))

\* ZipEntries::next_entry, one refill asking for at least min_size bytes: the
\* buffer, pos, end and offset after it, and the read's error if it failed
Refill(buf, p, e, off, min_size, short) ==
    LET remaining_ == e - p
        buf1 == copy_within_to_front(buf, p, e)
        max_read == Min(central_dir_end_pos - off, Len(buf) - remaining_)
        rd == read_at_least_at(data, max_read, min_size, off, short)
    IN  IF IsErr(rd)
        THEN [buffer |-> buf1, pos |-> p, end |-> e, offset |-> off, error |-> rd]
        ELSE [buffer |-> WriteAt(buf1, remaining_, rd[2]), pos |-> 0,
              end |-> remaining_ + Len(rd[2]), offset |-> off + Len(rd[2]), error |-> None]

\* no refill
NoRefill(buf, p, e, off) ==
    [buffer |-> buf, pos |-> p, end |-> e, offset |-> off, error |-> None]

\* the record an iterator yields
YieldedRecord(header, parts) ==
    LET entry == from_parts(header, parts[1], parts[2], parts[3])
    IN  [entry EXCEPT !.local_header_offset = @ + base_offset]

\* an archive with a well-formed central directory after lead bytes of
\* prepended data, the end-of-central-directory signature behind it; the
\* slice iterator over data[offset..end_position] and the positioned-read
\* iterator with a buffer that holds the longest record
InitEntries ==
    /\ pc = "slice_entries"
    /\ \E lead \in 0..1, shapes \in SeqsUpTo(RecordShapes, MaxRecords) :
          LET cd == CentralDirectoryBytes(shapes, 1)
          IN  /\ data = Zeros(lead) \o cd \o END_OF_CENTRAL_DIR_SIGNAUTRE_BYTES
              /\ entry_data = cd
              /\ entries_offset = lead
              /\ base_offset = lead
              /\ central_dir_end_pos = lead + Len(cd)
              /\ buffer \in {Zeros(n) : n \in LongestRecord(shapes)..
                                              Max(LongestRecord(shapes), Len(cd) + 1)}
    /\ slice_records = <<>>
    /\ slice_result = NotYet
    /\ pos = 0
    /\ end = 0
    /\ reader_records = <<>>
    /\ reader_result = NotYet
    /\ ScanIdle
    /\ VerifyIdle
    /\ PathIdle
    /\ LocateIdle
    /\ GetEntryIdle
    /\ WriteIdle
    /\ ZipReaderIdle
    /\ LocateReaderIdle
    /\ TimeIdle
    /\ ModeIdle
    /\ CivilIdle
    /\ MutexIdle

\* ZipSliceEntries::next_entry
SliceNextEntry ==
    /\ pc = "slice_entries"
    /\ IF entry_data = <<>>
       THEN /\ slice_result' = None
            /\ pc' = "reader_entries"
            /\ UNCHANGED <<entry_data, slice_records>>
       ELSE LET file_header == ZipFileHeaderFixed_parse(entry_data)
            IN  IF IsErr(file_header)
                THEN /\ slice_result' = file_header
                     /\ pc' = "reader_entries"
                     /\ UNCHANGED <<entry_data, slice_records>>
                ELSE LET rest == SliceFrom(entry_data, ZipFileHeaderFixed_SIZE)
                         parts == parse_variable_length(file_header[2], rest)
                     IN  IF parts = None
                         THEN /\ entry_data' = rest
                              /\ slice_result' = Err(Eof)
                              /\ pc' = "reader_entries"
                              /\ UNCHANGED slice_records
                         ELSE LET entry == YieldedRecord(file_header[2], parts[2])
                              IN  /\ entry_data' = parts[2][4]
                                  /\ slice_records' = Append(slice_records, entry)
                                  /\ slice_result' = Some(entry)
                                  /\ UNCHANGED pc
    /\ UNCHANGED <<data, buffer, pos, end, entries_offset, base_offset, central_dir_end_pos,
                   reader_records, reader_result>>
    /\ UNCHANGED notEntriesVars

\* ZipEntries::next_entry after its first refill left the iterator at r
ReaderParse(r, short) ==
    LET file_header == ZipFileHeaderFixed_parse(Slice(r.buffer, r.pos, r.end))
    IN  IF IsErr(file_header)
        THEN [r EXCEPT !.error = file_header]
        ELSE LET pos1 == r.pos + ZipFileHeaderFixed_SIZE
                 len == variable_length(file_header[2])
                 r2 == IF pos1 + len > r.end
                       THEN Refill(r.buffer, pos1, r.end, r.offset, len - (r.end - pos1), short)
                       ELSE NoRefill(r.buffer, pos1, r.end, r.offset)
             IN  IF r2.error # None THEN r2
                 ELSE LET parts == parse_variable_length(file_header[2],
                                                         Slice(r2.buffer, r2.pos, r2.end))
                      IN  IF parts = None
                          THEN [r2 EXCEPT !.error = Panic]
                          ELSE [buffer |-> r2.buffer, pos |-> r2.pos + len, end |-> r2.end,
                                offset |-> r2.offset, error |-> None,
                                entry |-> YieldedRecord(file_header[2], parts[2])]

\* ZipEntries::next_entry past its early return: the iterator after it
ReaderOutcome(short1, short2) ==
    LET r1 == IF pos + ZipFileHeaderFixed_SIZE >= end
              THEN Refill(buffer, pos, end, entries_offset, ZipFileHeaderFixed_SIZE, short1)
              ELSE NoRefill(buffer, pos, end, entries_offset)
    IN  IF r1.error # None THEN r1 ELSE ReaderParse(r1, short2)

\* ZipEntries::next_entry; short1 and short2: whether the reader answers
\* the first and the second refill with a short read
ReaderNextEntry(short1, short2) ==
    /\ pc = "reader_entries"
    /\ IF pos + ZipFileHeaderFixed_SIZE >= end /\ entries_offset >= central_dir_end_pos
       THEN /\ reader_result' = None
            /\ pc' = "entries_done"
            /\ UNCHANGED <<buffer, pos, end, entries_offset, reader_records>>
       ELSE \E r \in {ReaderOutcome(short1, short2)} :
                /\ buffer' = r.buffer
                /\ pos' = r.pos
                /\ end' = r.end
                /\ entries_offset' = r.offset
                /\ IF r.error # None
                   THEN /\ reader_result' = r.error
                        /\ pc' = "entries_done"
                        /\ UNCHANGED reader_records
                   ELSE /\ reader_result' = Some(r.entry)
                        /\ reader_records' = Append(reader_records, r.entry)
                        /\ UNCHANGED pc
    /\ UNCHANGED <<data, entry_data, slice_records, slice_result, base_offset, central_dir_end_pos>>
    /\ UNCHANGED notEntriesVars

NextEntries ==
    \/ SliceNextEntry
    \/ \E short1 \in BOOLEAN, short2 \in BOOLEAN : ReaderNextEntry(short1, short2)

SpecEntries == InitEntries /\ [][NextEntries]_vars

\* both iterators have stopped
EntriesDone == pc = "entries_done"

\* C4: over a well-formed central directory and with a buffer that holds the
\* longest record, the positioned-read iterator stops with None, without an
\* error, after yielding exactly the records the slice iterator yields.
C4_SameRecords ==
    EntriesDone =>
        /\ slice_result = None
        /\ reader_result = None
        /\ reader_records = slice_records

-----------------------------------------------------------------------------
(* Path normalization (path.rs, archive.rs).  Names are byte strings.      *)

\* bound of the normalizer's inputs: the longest name
MaxNameLen == 5

\* b'a', b'.', b'/', b'\\', b':'
CHAR_A == 97

CHAR_DOT == 46

CHAR_SLASH == 47

CHAR_BACKSLASH == 92

CHAR_COLON == 58

NameBytes == {CHAR_A, CHAR_DOT, CHAR_SLASH, CHAR_BACKSLASH, CHAR_COLON}

StartsWith(s, prefix) == Len(s) >= Len(prefix) /\ Slice(s, 0, Len(prefix)) = prefix

\* s.trim_start_matches(pat)
RECURSIVE trim_start_matches(_, _)
trim_start_matches(s, pat) ==
    IF StartsWith(s, pat) THEN trim_start_matches(SliceFrom(s, Len(pat)), pat) ELSE s

\* s.trim_end_matches('/')
RECURSIVE trim_end_slashes(_)
trim_end_slashes(s) ==
    IF s # <<>> /\ s[Len(s)] = CHAR_SLASH THEN trim_end_slashes(Slice(s, 0, Len(s) - 1)) ELSE s

\* s.replace('\\', "/")
replace_backslashes(s) == [i \in 1..Len(s) |-> IF s[i] = CHAR_BACKSLASH THEN CHAR_SLASH ELSE s[i]]

\* s.split(sep): the pieces between the separators, empty ones included
RECURSIVE split(_, _)
split(s, sep) ==
    IF \A i \in 1..Len(s) : s[i] # sep THEN <<s>>
    ELSE LET i == CHOOSE k \in 1..Len(s) : s[k] = sep /\ \A j \in 1..(k - 1) : s[j] # sep
         IN  <<Slice(s, 0, i - 1)>> \o split(SliceFrom(s, i), sep)

\* result.rfind('/'), or 0 when there is none: the length truncate() keeps
rfind_slash_or_zero(s) ==
    LET hits == {i \in 0..(Len(s) - 1) : s[i + 1] = CHAR_SLASH}
    IN  IF hits = {} THEN 0 ELSE CHOOSE i \in hits : \A j \in hits : j <= i

\* normalize_alloc, the loop over the pieces
RECURSIVE resolve_components(_, _)
resolve_components(splits, result) ==
    IF splits = <<>> THEN result
    ELSE LET piece == Head(splits)
         IN  IF piece = <<>> \/ piece = <<CHAR_DOT>>
             THEN resolve_components(Tail(splits), result)
             ELSE IF piece = <<CHAR_DOT, CHAR_DOT>>
             THEN resolve_components(Tail(splits), Slice(result, 0, rfind_slash_or_zero(result)))
             ELSE resolve_components(Tail(splits),
                      (IF result # <<>> THEN Append(result, CHAR_SLASH) ELSE result) \o piece)

\* ZipFilePath::normalize_alloc(s)
normalize_alloc(s) ==
    LET s1 == replace_backslashes(s)
        pieces == split(s1, CHAR_COLON)
        s2 == pieces[Len(pieces)]
    IN  resolve_components(split(s2, CHAR_SLASH), <<>>)

\* from_str, the test for the slow path: a byte and the byte before it
NeedsSlowPath(s) ==
    \E i \in 1..Len(s) :
        LET c == s[i]
            last == IF i = 1 THEN 0 ELSE s[i - 1]
        IN  \/ c = CHAR_BACKSLASH
            \/ c = CHAR_SLASH /\ last = CHAR_SLASH
            \/ c = CHAR_DOT /\ last = CHAR_DOT
            \/ c = CHAR_DOT /\ last = CHAR_SLASH
            \/ c = CHAR_COLON

\* from_str, the fast path's loop of prefix trims
RECURSIVE FastPath(_)
FastPath(s) ==
    IF StartsWith(s, <<CHAR_DOT, CHAR_DOT, CHAR_SLASH>>)
    THEN FastPath(trim_start_matches(s, <<CHAR_DOT, CHAR_DOT, CHAR_SLASH>>))
    ELSE IF StartsWith(s, <<CHAR_DOT, CHAR_SLASH>>)
    THEN FastPath(trim_start_matches(s, <<CHAR_DOT, CHAR_SLASH>>))
    ELSE IF StartsWith(s, <<CHAR_SLASH>>)
    THEN FastPath(trim_start_matches(s, <<CHAR_SLASH>>))
    ELSE s

\* ZipFilePath::from_str(name) (path.rs), ZipFilePath::normalize (archive.rs)
from_str(s) == IF NeedsSlowPath(s) THEN normalize_alloc(s) ELSE FastPath(s)

\* an is_dir that takes every path for a directory
is_dir_always(file_path) == TRUE

\* ZipFilePath::is_dir
is_dir(s) == s # <<>> /\ s[Len(s)] = CHAR_SLASH

InitPath ==
    /\ pc = "path"
    /\ data = <<>>
    /\ buffer = <<>>
    /\ name \in SeqsUpTo(NameBytes, MaxNameLen)
    /\ normalized = NotYet
    /\ ScanIdle
    /\ VerifyIdle
    /\ EntriesIdle
    /\ LocateIdle
    /\ GetEntryIdle
    /\ WriteIdle
    /\ ZipReaderIdle
    /\ LocateReaderIdle
    /\ TimeIdle
    /\ ModeIdle
    /\ CivilIdle
    /\ MutexIdle

\* ZipFilePath::from_str(name)
FromStr ==
    /\ pc = "path"
    /\ normalized' = Ok(from_str(name))
    /\ pc' = "path_done"
    /\ UNCHANGED name
    /\ UNCHANGED notPathVars

NextPath == FromStr

SpecPath == InitPath /\ [][NextPath]_vars

\* the pieces of a path between its slashes
Segments(s) == split(s, CHAR_SLASH)

\* C8: a normalized path holds no backslash, no empty segment ("//"), no "."
\* or ".." segment, no leading slash and no drive prefix (no colon).
C8_NormalizedIsSafe ==
    IsOk(normalized) =>
        LET s == normalized[2]
        IN  /\ \A i \in 1..Len(s) : s[i] # CHAR_BACKSLASH /\ s[i] # CHAR_COLON
            /\ \A i \in 1..(Len(s) - 1) : ~(s[i] = CHAR_SLASH /\ s[i + 1] = CHAR_SLASH)
            /\ \A i \in 1..Len(Segments(s)) :
                   Segments(s)[i] # <<CHAR_DOT>> /\ Segments(s)[i] # <<CHAR_DOT, CHAR_DOT>>
            /\ ~StartsWith(s, <<CHAR_SLASH>>)

-----------------------------------------------------------------------------
(* Locating an archive in a slice (locator.rs) and the central directory   *)
(* its end-of-central-directory records name (archive.rs).                 *)

\* bounds of the locator's inputs: the longest data before the records, and
\* the largest value of a size or offset field that is no sentinel
MaxLead == 2

MaxField == 3

END_OF_CENTRAL_DIR_SIGNATURE64_BYTES == <<80, 75, 6, 6>>

END_OF_CENTRAL_DIR_LOCATOR_SIGNATURE_BYTES == <<80, 75, 6, 7>>

EndOfCentralDirectoryRecordFixed_SIZE == 22

Zip64EndOfCentralDirectoryLocatorRecord_SIZE == 20

Zip64EndOfCentralDirectoryRecord_SIZE == 56

ZIP64_VERSION_NEEDED == 45

MissingEndOfCentralDirectory == <<"MissingEndOfCentralDirectory">>

\* EndOfCentralDirectoryRecordFixed::parse(data)
EndOfCentralDirectoryRecordFixed_parse(d) ==
    IF Len(d) < EndOfCentralDirectoryRecordFixed_SIZE THEN Err(Eof)
    ELSE LET result == [signature |-> Slice(d, 0, 4),
                        disk_number |-> le_u16(Slice(d, 4, 6)),
                        eocd_disk |-> le_u16(Slice(d, 6, 8)),
                        num_entries |-> le_u16(Slice(d, 8, 10)),
                        total_entries |-> le_u16(Slice(d, 10, 12)),
                        central_dir_size |-> le_u32(Slice(d, 12, 16)),
                        central_dir_offset |-> le_u32(Slice(d, 16, 20)),
                        comment_len |-> le_u16(Slice(d, 20, 22))]
         IN  IF result.signature # END_OF_CENTRAL_DIR_SIGNAUTRE_BYTES
             THEN Err(InvalidSignature(END_OF_CENTRAL_DIR_SIGNAUTRE_BYTES, result.signature))
             ELSE Ok(result)

\* EndOfCentralDirectoryRecordFixed::is_zip64
is_zip64(e) == e.num_entries = U16_MAX \/ e.central_dir_offset = U32_MAX

\* Zip64EndOfCentralDirectoryLocatorRecord::parse(data)
Zip64EndOfCentralDirectoryLocatorRecord_parse(d) ==
    IF Len(d) < Zip64EndOfCentralDirectoryLocatorRecord_SIZE THEN Err(Eof)
    ELSE LET result == [signature |-> Slice(d, 0, 4),
                        eocd_disk |-> le_u32(Slice(d, 4, 8)),
                        directory_offset |-> le_u64(Slice(d, 8, 16)),
                        total_disks |-> le_u32(Slice(d, 16, 20))]
         IN  IF result.signature # END_OF_CENTRAL_DIR_LOCATOR_SIGNATURE_BYTES
             THEN Err(InvalidSignature(END_OF_CENTRAL_DIR_LOCATOR_SIGNATURE_BYTES,
                                       result.signature))
             ELSE Ok(result)

\* Zip64EndOfCentralDirectoryRecord::parse(data)
Zip64EndOfCentralDirectoryRecord_parse(d) ==
    IF Len(d) < Zip64EndOfCentralDirectoryRecord_SIZE THEN Err(Eof)
    ELSE LET result == [signature |-> Slice(d, 0, 4),
                        size |-> le_u64(Slice(d, 4, 12)),
                        version_made_by |-> le_u16(Slice(d, 12, 14)),
                        version_needed |-> le_u16(Slice(d, 14, 16)),
                        disk_number |-> le_u32(Slice(d, 16, 20)),
                        cd_disk |-> le_u32(Slice(d, 20, 24)),
                        num_entries |-> le_u64(Slice(d, 24, 32)),
                        total_entries |-> le_u64(Slice(d, 32, 40)),
                        central_dir_size |-> le_u64(Slice(d, 40, 48)),
                        central_dir_offset |-> le_u64(Slice(d, 48, 56))]
         IN  IF result.signature # END_OF_CENTRAL_DIR_SIGNATURE64_BYTES
             THEN Err(InvalidSignature(END_OF_CENTRAL_DIR_SIGNATURE64_BYTES, result.signature))
             ELSE Ok(result)

\* ZipLocator::locate_in_byte_slice(data)
locate_in_byte_slice(d, max_search) ==
    LET location == find_end_of_central_dir_signature(d, max_search)
    IN  IF location = None THEN Err(MissingEndOfCentralDirectory)
        ELSE LET eocd == EndOfCentralDirectoryRecordFixed_parse(SliceFrom(d, location[2]))
             IN  IF IsErr(eocd) THEN Err(eocd[2])
                 ELSE IF ~is_zip64(eocd[2])
                 THEN Ok([zip64 |-> None, eocd |-> eocd[2], stream_pos |-> location[2]])
                 ELSE LET zip64l == SliceFrom(d, saturating_sub(location[2],
                                        Zip64EndOfCentralDirectoryLocatorRecord_SIZE))
                          zip64_locator == Zip64EndOfCentralDirectoryLocatorRecord_parse(zip64l)
                      IN  IF IsErr(zip64_locator) THEN Err(zip64_locator[2])
                          ELSE LET zip64_eocd == SliceFrom(d,
                                       Min(zip64_locator[2].directory_offset, Len(d)))
                                   zip64_record ==
                                       Zip64EndOfCentralDirectoryRecord_parse(zip64_eocd)
                               IN  IF IsErr(zip64_record) THEN Err(zip64_record[2])
                                   ELSE Ok([zip64 |-> Some(zip64_record[2]),
                                            eocd |-> eocd[2],
                                            stream_pos |-> zip64_locator[2].directory_offset])

\* a base_offset that takes the archive to start where the data starts
eocd_base_offset_zero(e) == 0

\* EndOfCentralDirectory::base_offset
eocd_base_offset(e) ==
    IF IsSome(e.zip64) THEN 0
    ELSE saturating_sub(saturating_sub(e.stream_pos, e.eocd.central_dir_size),
                        e.eocd.central_dir_offset)

\* EndOfCentralDirectory::end_position
end_position(e) == e.stream_pos

\* EndOfCentralDirectory::offset
eocd_offset(e) ==
    IF IsSome(e.zip64) THEN e.zip64[2].central_dir_offset
    ELSE eocd_base_offset(e) + e.eocd.central_dir_offset

\* &data[start..stop]: the slice, or the panic of a range that is out of
\* order or out of the data
IndexRange(d, start, stop) ==
    IF start > stop \/ stop > Len(d) THEN Panic ELSE Ok(Slice(d, start, stop))

\* ZipSliceArchive::entries: the bytes handed to ZipSliceEntries
SliceArchiveEntryData(d, e) == IndexRange(d, Min(eocd_offset(e), Len(d)), end_position(e))

\* the end-of-central-directory record ZipArchiveWriter::finish writes
EndOfCentralDirectoryBytes(entries_count, cd_size, cd_offset) ==
    END_OF_CENTRAL_DIR_SIGNAUTRE_BYTES \o Zeros(4) \o to_le_bytes(entries_count, 2)
        \o to_le_bytes(entries_count, 2) \o to_le_bytes(cd_size, 4)
        \o to_le_bytes(cd_offset, 4) \o to_le_bytes(0, 2)

\* write_zip64_eocd(writer, total_entries, central_directory_size,
\* central_directory_offset): the bytes written
write_zip64_eocd(total_entries, cd_size, cd_offset) ==
    END_OF_CENTRAL_DIR_SIGNATURE64_BYTES
        \o to_le_bytes(Zip64EndOfCentralDirectoryRecord_SIZE - 12, 8)
        \o to_le_bytes(ZIP64_VERSION_NEEDED, 2) \o to_le_bytes(ZIP64_VERSION_NEEDED, 2)
        \o to_le_bytes(0, 4) \o to_le_bytes(0, 4)
        \o to_le_bytes(total_entries, 8) \o to_le_bytes(total_entries, 8)
        \o to_le_bytes(cd_size, 8) \o to_le_bytes(cd_offset, 8)

\* write_zip64_eocd_locator(writer, zip64_eocd_offset): the bytes written
write_zip64_eocd_locator(zip64_eocd_offset) ==
    END_OF_CENTRAL_DIR_LOCATOR_SIGNATURE_BYTES \o to_le_bytes(0, 4)
        \o to_le_bytes(zip64_eocd_offset, 8) \o to_le_bytes(1, 4)

\* the inputs: lead bytes, then either a lone end-of-central-directory record
\* or a ZIP64 record, its locator and the record with the offset sentinel;
\* the sizes and offsets in the records are whatever the input's author chose
LocateData ==
    {Zeros(lead) \o EndOfCentralDirectoryBytes(0, cd_size, cd_offset) :
         lead \in 0..MaxLead, cd_size \in 0..MaxField, cd_offset \in 0..MaxField}
    \cup {Zeros(lead) \o write_zip64_eocd(0, cd_size, cd_offset)
              \o write_zip64_eocd_locator(directory_offset)
              \o EndOfCentralDirectoryBytes(0, cd_size, U32_MAX) :
          lead \in 0..MaxLead, cd_size \in 0..1, cd_offset \in 0..MaxField,
          directory_offset \in 0..MaxLead}

InitLocate ==
    /\ pc = "locate"
    /\ data \in LocateData
    /\ buffer = <<>>
    /\ located = NotYet
    /\ located_entries = NotYet
    /\ ScanIdle
    /\ VerifyIdle
    /\ EntriesIdle
    /\ PathIdle
    /\ GetEntryIdle
    /\ WriteIdle
    /\ ZipReaderIdle
    /\ LocateReaderIdle
    /\ TimeIdle
    /\ ModeIdle
    /\ CivilIdle
    /\ MutexIdle

\* ZipLocator::locate_in_slice(data) with the default search space
LocateInSlice ==
    /\ pc = "locate"
    /\ located' = locate_in_byte_slice(data, Len(data))
    /\ pc' = IF IsOk(located') THEN "located" ELSE "locate_failed"
    /\ UNCHANGED <<data, located_entries>>
    /\ UNCHANGED notLocateVars

\* ZipSliceArchive::entries
SliceArchiveEntries ==
    /\ pc = "located"
    /\ located_entries' = SliceArchiveEntryData(data, located[2])
    /\ pc' = "located_entries"
    /\ UNCHANGED <<data, located>>
    /\ UNCHANGED notLocateVars

NextLocate == LocateInSlice \/ SliceArchiveEntries

SpecLocate == InitLocate /\ [][NextLocate]_vars

\* C9: every located archive has offset() <= end_position() <= the place of
\* the end-of-central-directory record in the data, and entries() takes
\* data[offset..end] without an out-of-range slice.
C9_DirectoryRangeInOrder ==
    /\ IsOk(located) =>
           /\ eocd_offset(located[2]) <= end_position(located[2])
           /\ end_position(located[2]) <= Len(data)
    /\ located_entries # Panic

-----------------------------------------------------------------------------
(* get_entry of the slice archive and of the positioned-read archive       *)
(* (archive.rs).                                                           *)

\* bound of get_entry's inputs: the longest entry body
MaxBodyLen == 2

LOCAL_FILE_HEADER_SIGNATURE_BYTES == <<80, 75, 3, 4>>

DATA_DESCRIPTOR_SIGNATURE_BYTES == <<80, 75, 7, 8>>

ZipLocalFileHeaderFixed_SIZE == 30

DataDescriptor_SIZE == 8

\* ZipLocalFileHeaderFixed::parse(data)
ZipLocalFileHeaderFixed_parse(d) ==
    IF Len(d) < ZipLocalFileHeaderFixed_SIZE THEN Err(Eof)
    ELSE LET result == [signature |-> Slice(d, 0, 4),
                        version_needed |-> le_u16(Slice(d, 4, 6)),
                        flags |-> le_u16(Slice(d, 6, 8)),
                        compression_method |-> le_u16(Slice(d, 8, 10)),
                        last_mod_time |-> le_u16(Slice(d, 10, 12)),
                        last_mod_date |-> le_u16(Slice(d, 12, 14)),
                        crc32 |-> crc_le_u32(Slice(d, 14, 18)),
                        compressed_size |-> le_u32(Slice(d, 18, 22)),
                        uncompressed_size |-> le_u32(Slice(d, 22, 26)),
                        file_name_len |-> le_u16(Slice(d, 26, 28)),
                        extra_field_len |-> le_u16(Slice(d, 28, 30))]
         IN  IF result.signature # LOCAL_FILE_HEADER_SIGNATURE_BYTES
             THEN Err(InvalidSignature(LOCAL_FILE_HEADER_SIGNATURE_BYTES, result.signature))
             ELSE Ok(result)

\* ZipLocalFileHeaderFixed::variable_length
local_variable_length(h) == h.file_name_len + h.extra_field_len

\* ZipLocalFileHeaderFixed::write(writer): the bytes written
ZipLocalFileHeaderFixed_write(h) ==
    h.signature \o to_le_bytes(h.version_needed, 2) \o to_le_bytes(h.flags, 2)
        \o to_le_bytes(h.compression_method, 2) \o to_le_bytes(h.last_mod_time, 2)
        \o to_le_bytes(h.last_mod_date, 2) \o crc_to_le_bytes(h.crc32)
        \o to_le_bytes(h.compressed_size, 4) \o to_le_bytes(h.uncompressed_size, 4)
        \o to_le_bytes(h.file_name_len, 2) \o to_le_bytes(h.extra_field_len, 2)

\* the header write_local_header builds
LocalHeader(flags, file_name_len, extra_field_len) ==
    [signature |-> LOCAL_FILE_HEADER_SIGNATURE_BYTES, version_needed |-> 20, flags |-> flags,
     compression_method |-> 0, last_mod_time |-> 0, last_mod_date |-> 0, crc32 |-> Zero32,
     compressed_size |-> 0, uncompressed_size |-> 0, file_name_len |-> file_name_len,
     extra_field_len |-> extra_field_len]

\* DataDescriptor::parse(data)
DataDescriptor_parse(d) ==
    IF Len(d) < DataDescriptor_SIZE THEN Err(Eof)
    ELSE LET p == IF Slice(d, 0, 4) = DATA_DESCRIPTOR_SIGNATURE_BYTES THEN 4 ELSE 0
         IN  Ok([crc |-> crc_le_u32(Slice(d, p, p + 4))])

\* ZipSliceArchive::get_entry(entry)
slice_get_entry(d, entry) ==
    LET header == SliceFrom(d, Min(entry.local_header_offset, Len(d)))
        file_header == ZipLocalFileHeaderFixed_parse(header)
    IN  IF IsErr(file_header) THEN file_header
        ELSE LET header1 == SliceFrom(header, ZipLocalFileHeaderFixed_SIZE)
                 len == local_variable_length(file_header[2])
             IN  IF len > Len(header1) THEN Err(Eof)
                 ELSE LET rest == SliceFrom(header1, len)
                      IN  IF Len(rest) < entry.compressed_size THEN Err(Eof)
                          ELSE LET body == Slice(rest, 0, entry.compressed_size)
                                   rest1 == SliceFrom(rest, entry.compressed_size)
                                   dd == IF entry.has_data_descriptor
                                         THEN DataDescriptor_parse(rest1)
                                         ELSE Ok([crc |-> entry.crc])
                               IN  IF IsErr(dd) THEN dd
                                   ELSE Ok([data |-> body,
                                            verifier |-> ZipVerification(dd[2].crc,
                                                             entry.uncompressed_size),
                                            data_start_offset |->
                                                entry.local_header_offset
                                                    + ZipLocalFileHeaderFixed_SIZE + len])

\* ZipSliceEntry::compressed_data_range
slice_compressed_data_range(e) == <<e.data_start_offset, e.data_start_offset + Len(e.data)>>

\* a + b on u64: the sum, or on overflow the panic of a build with overflow
\* checks and the wrapped sum of a build without
checked_add_u64(a, b, overflow_checks) ==
    IF a + b <= U64_MAX THEN Ok(a + b)
    ELSE IF overflow_checks THEN Panic ELSE Ok((a + b) % (U64_MAX + 1))

\* ZipArchive::get_entry(entry) on a reader over d
reader_get_entry(d, entry, overflow_checks) ==
    LET header == read_exact_at(d, ZipLocalFileHeaderFixed_SIZE, entry.local_header_offset)
    IN  IF IsErr(header) THEN header
        ELSE LET file_header == ZipLocalFileHeaderFixed_parse(header[2])
             IN  IF IsErr(file_header) THEN file_header
                 ELSE LET body_offset == entry.local_header_offset
                              + ZipLocalFileHeaderFixed_SIZE
                              + local_variable_length(file_header[2])
                          body_end_offset ==
                              checked_add_u64(entry.compressed_size, body_offset,
                                              overflow_checks)
                      IN  IF body_end_offset = Panic THEN Panic
                          ELSE Ok([entry |-> entry, body_offset |-> body_offset,
                                   body_end_offset |-> body_end_offset[2]])

\* ZipEntry::compressed_data_range
reader_compressed_data_range(e) == <<e.body_offset, e.body_end_offset>>

\* a data descriptor as ZipEntryWriter::finish writes it below the ZIP64
\* threshold
DataDescriptorBytes(c, compressed, uncompressed) ==
    DATA_DESCRIPTOR_SIGNATURE_BYTES \o crc_to_le_bytes(c) \o to_le_bytes(compressed, 4)
        \o to_le_bytes(uncompressed, 4)

\* the inputs: lead bytes, a local header, then a name, an extra field, a
\* body and a data descriptor, or a part of them
GetEntryData ==
    {Zeros(lead)
        \o ZipLocalFileHeaderFixed_write(LocalHeader(0, file_name_len, extra_field_len))
        \o tail :
     lead \in 0..MaxLead, file_name_len \in 0..1, extra_field_len \in 0..1,
     tail \in {Zeros(n) : n \in 0..(MaxBodyLen + 2)}
              \cup {Zeros(n) \o DataDescriptorBytes(Zero32, n, n) : n \in 0..MaxBodyLen}}

\* the wayfinders: what a central directory record of any content gives
GetEntryWayfinders ==
    [uncompressed_size : {0}, compressed_size : 0..MaxBodyLen \cup {U64_MAX},
     local_header_offset : 0..MaxLead, crc : {Zero32}, has_data_descriptor : BOOLEAN]

InitGetEntry ==
    /\ pc = "get_entry"
    /\ data \in GetEntryData
    /\ buffer = <<>>
    /\ entry_wayfinder \in GetEntryWayfinders
    /\ slice_entry = NotYet
    /\ reader_entry = NotYet
    /\ ScanIdle
    /\ VerifyIdle
    /\ EntriesIdle
    /\ PathIdle
    /\ LocateIdle
    /\ WriteIdle
    /\ ZipReaderIdle
    /\ LocateReaderIdle
    /\ TimeIdle
    /\ ModeIdle
    /\ CivilIdle
    /\ MutexIdle

\* ZipSliceArchive::get_entry(wayfinder)
SliceGetEntry ==
    /\ pc = "get_entry"
    /\ slice_entry' = slice_get_entry(data, entry_wayfinder)
    /\ pc' = "get_entry_reader"
    /\ UNCHANGED <<entry_wayfinder, reader_entry>>
    /\ UNCHANGED notGetEntryVars

\* ZipArchive::get_entry(wayfinder), built with or without overflow checks
ReaderGetEntry(overflow_checks) ==
    /\ pc = "get_entry_reader"
    /\ reader_entry' = reader_get_entry(data, entry_wayfinder, overflow_checks)
    /\ pc' = "get_entry_done"
    /\ UNCHANGED <<entry_wayfinder, slice_entry>>
    /\ UNCHANGED notGetEntryVars

NextGetEntry ==
    \/ SliceGetEntry
    \/ \E overflow_checks \in BOOLEAN : ReaderGetEntry(overflow_checks)

SpecGetEntry == InitGetEntry /\ [][NextGetEntry]_vars

\* the local header at the wayfinder's offset, when it parses
WayfinderLocalHeader ==
    ZipLocalFileHeaderFixed_parse(SliceFrom(data, Min(entry_wayfinder.local_header_offset,
                                                      Len(data))))

\* (LHO + 30 + n + e, LHO + 30 + n + e + compressed_size)
ExpectedRange ==
    LET h == WayfinderLocalHeader[2]
        start == entry_wayfinder.local_header_offset + ZipLocalFileHeaderFixed_SIZE
                     + h.file_name_len + h.extra_field_len
    IN  <<start, start + entry_wayfinder.compressed_size>>

\* C10: when the local header at the wayfinder's offset parses, the entry
\* either archive returns has the compressed data range (LHO + 30 + n + e,
\* LHO + 30 + n + e + compressed_size), n and e read from the local header.
C10_CompressedDataRange ==
    (pc = "get_entry_done" /\ IsOk(WayfinderLocalHeader)) =>
        /\ reader_entry # Panic
        /\ IsOk(reader_entry) => reader_compressed_data_range(reader_entry[2]) = ExpectedRange
        /\ IsOk(slice_entry) => slice_compressed_data_range(slice_entry[2]) = ExpectedRange

-----------------------------------------------------------------------------
(* The archive writer (writer.rs).  Entries are written without a          *)
(* modification time and without permissions, stored.                      *)

\* bound of the writer's inputs: the most entries added to a writer that
\* takes writes of any length
MaxFiles == 1

ZIP64_EXTRA_FIELD_ID == 1

FLAG_DATA_DESCRIPTOR == 8

ZIP64_THRESHOLD_FILE_SIZE == U32_MAX

ZIP64_THRESHOLD_OFFSET == U32_MAX

ZIP64_THRESHOLD_ENTRIES == U16_MAX

InvalidInput(msg) == <<"InvalidInput", msg>>

\* FileHeader::needs_zip64 with the sentinel value itself taken as small
needs_zip64_above(f) ==
    \/ f.compressed_size > ZIP64_THRESHOLD_FILE_SIZE
    \/ f.uncompressed_size > ZIP64_THRESHOLD_FILE_SIZE
    \/ f.local_header_offset > ZIP64_THRESHOLD_OFFSET

\* FileHeader::needs_zip64
needs_zip64(f) ==
    \/ f.compressed_size >= ZIP64_THRESHOLD_FILE_SIZE
    \/ f.uncompressed_size >= ZIP64_THRESHOLD_FILE_SIZE
    \/ f.local_header_offset >= ZIP64_THRESHOLD_OFFSET

\* FileHeader::zip64_extra_field_size without the local header offset
zip64_extra_field_size_no_offset(f) ==
    IF ~needs_zip64(f) THEN 0
    ELSE 4 + (IF f.uncompressed_size >= ZIP64_THRESHOLD_FILE_SIZE THEN 8 ELSE 0)
           + (IF f.compressed_size >= ZIP64_THRESHOLD_FILE_SIZE THEN 8 ELSE 0)

\* FileHeader::zip64_extra_field_size
zip64_extra_field_size(f) ==
    IF ~needs_zip64(f) THEN 0
    ELSE 4 + (IF f.uncompressed_size >= ZIP64_THRESHOLD_FILE_SIZE THEN 8 ELSE 0)
           + (IF f.compressed_size >= ZIP64_THRESHOLD_FILE_SIZE THEN 8 ELSE 0)
           + (IF f.local_header_offset >= ZIP64_THRESHOLD_OFFSET THEN 8 ELSE 0)

\* FileHeader::write_zip64_extra_field: the bytes written
write_zip64_extra_field(f) ==
    IF ~needs_zip64(f) THEN <<>>
    ELSE LET data_size ==
                 (IF f.uncompressed_size >= ZIP64_THRESHOLD_FILE_SIZE THEN 8 ELSE 0)
                 + (IF f.compressed_size >= ZIP64_THRESHOLD_FILE_SIZE THEN 8 ELSE 0)
                 + (IF f.local_header_offset >= ZIP64_THRESHOLD_OFFSET THEN 8 ELSE 0)
         IN  to_le_bytes(ZIP64_EXTRA_FIELD_ID, 2) \o to_le_bytes(data_size, 2)
                 \o (IF f.uncompressed_size >= ZIP64_THRESHOLD_FILE_SIZE
                     THEN to_le_bytes(f.uncompressed_size, 8) ELSE <<>>)
                 \o (IF f.compressed_size >= ZIP64_THRESHOLD_FILE_SIZE
                     THEN to_le_bytes(f.compressed_size, 8) ELSE <<>>)
                 \o (IF f.local_header_offset >= ZIP64_THRESHOLD_OFFSET
                     THEN to_le_bytes(f.local_header_offset, 8) ELSE <<>>)

\* ZipArchiveWriter::finish, the bytes of one central directory record
CentralRecordOf(f) ==
    LET version_needed == IF needs_zip64(f) THEN ZIP64_VERSION_NEEDED ELSE 20
    IN  CENTRAL_HEADER_SIGNATURE_BYTES
            \o to_le_bytes(version_needed, 2) \o to_le_bytes(version_needed, 2)
            \o to_le_bytes(f.flags, 2) \o to_le_bytes(f.compression_method, 2)
            \o to_le_bytes(0, 2) \o to_le_bytes(0, 2)
            \o crc_to_le_bytes(f.crc)
            \o to_le_bytes(Min(f.compressed_size, ZIP64_THRESHOLD_FILE_SIZE), 4)
            \o to_le_bytes(Min(f.uncompressed_size, ZIP64_THRESHOLD_FILE_SIZE), 4)
            \o to_le_bytes(Len(f.name), 2)
            \o to_le_bytes(zip64_extra_field_size(f), 2)
            \o to_le_bytes(0, 2)
            \o Zeros(4)
            \o to_le_bytes(0, 4)
            \o to_le_bytes(Min(f.local_header_offset, ZIP64_THRESHOLD_OFFSET), 4)
            \o f.name
            \o write_zip64_extra_field(f)

\* a loop over self.files from its last entry to its first
RECURSIVE CentralDirectoryReversed(_)
CentralDirectoryReversed(fs) ==
    IF fs = <<>> THEN <<>>
    ELSE CentralRecordOf(fs[Len(fs)]) \o CentralDirectoryReversed(SubSeq(fs, 1, Len(fs) - 1))

\* ZipArchiveWriter::finish, the loop over self.files
RECURSIVE CentralDirectoryOf(_)
CentralDirectoryOf(fs) ==
    IF fs = <<>> THEN <<>>
    ELSE IF Len(fs) = 1 THEN CentralRecordOf(fs[1])
    ELSE LET half == Len(fs) \div 2
         IN  CentralDirectoryOf(SubSeq(fs, 1, half))
                 \o CentralDirectoryOf(SubSeq(fs, half + 1, Len(fs)))

\* ZipArchiveWriter::finish, everything written after the central directory
EndRecordsOf(fs, cd_offset, cd_size) ==
    LET archive_needs_zip64 ==
            \/ Len(fs) >= ZIP64_THRESHOLD_ENTRIES
            \/ cd_offset >= ZIP64_THRESHOLD_OFFSET
            \/ \E i \in 1..Len(fs) : needs_zip64(fs[i])
    IN  (IF archive_needs_zip64
         THEN write_zip64_eocd(Len(fs), cd_size, cd_offset)
                  \o write_zip64_eocd_locator(cd_offset + cd_size)
         ELSE <<>>)
        \o EndOfCentralDirectoryBytes(Min(Len(fs), ZIP64_THRESHOLD_ENTRIES),
                                      Min(cd_size, ZIP64_THRESHOLD_OFFSET),
                                      Min(cd_offset, ZIP64_THRESHOLD_OFFSET))

\* write_local_header: the bytes written
write_local_header(file_path, flags) ==
    ZipLocalFileHeaderFixed_write(LocalHeader(flags, Len(file_path), 0)) \o file_path

\* ZipEntryWriter::finish, the data descriptor
write_data_descriptor(c, compressed_size, uncompressed_size) ==
    DATA_DESCRIPTOR_SIGNATURE_BYTES \o crc_to_le_bytes(c)
        \o (IF \/ compressed_size >= ZIP64_THRESHOLD_FILE_SIZE
               \/ uncompressed_size >= ZIP64_THRESHOLD_FILE_SIZE
            THEN to_le_bytes(compressed_size, 8) \o to_le_bytes(uncompressed_size, 8)
            ELSE to_le_bytes(compressed_size, 4) \o to_le_bytes(uncompressed_size, 4))

\* the names and the bytes handed to the writer, and the lengths of the
\* writes whose bytes the sink does not keep
FileNames == {<<>>, <<CHAR_A>>}

DirNames == {<<CHAR_A, CHAR_SLASH>>, <<CHAR_A>>}

WriteBytes == {<<0>>, <<1>>}

BulkLens ==
    {ZIP64_THRESHOLD_FILE_SIZE - 1, ZIP64_THRESHOLD_FILE_SIZE, ZIP64_THRESHOLD_FILE_SIZE + 1}

\* ZipArchiveWriter::at_offset(start): where the archive starts
StartOffsets ==
    {0, ZIP64_THRESHOLD_OFFSET - 1, ZIP64_THRESHOLD_OFFSET, ZIP64_THRESHOLD_OFFSET + 1}

\* the FileHeader new_dir_with_options pushes for a directory written at lho
DirHeader(file_path, lho) ==
    [name |-> file_path, compression_method |-> 0, local_header_offset |-> lho,
     compressed_size |-> 0, uncompressed_size |-> 0, crc |-> Zero32, flags |-> 0]

\* the files of a writer after new_dir("a/") was called k times
PriorDirs(k) ==
    [i \in 1..k |-> DirHeader(<<CHAR_A, CHAR_SLASH>>,
                        (i - 1) * Len(write_local_header(<<CHAR_A, CHAR_SLASH>>, 0)))]

\* a new writer at an offset, or a writer at offset 0 that holds so many
\* directories that MaxFiles more entries reach the entry threshold; the
\* sink keeps what is written from here on
InitWriter ==
    /\ pc = "writing"
    /\ data = <<>>
    /\ buffer = <<>>
    /\ \E start \in StartOffsets, k \in {0, ZIP64_THRESHOLD_ENTRIES - MaxFiles} :
          /\ start = 0 \/ k = 0
          /\ files = PriorDirs(k)
          /\ count = start + k * Len(write_local_header(<<CHAR_A, CHAR_SLASH>>, 0))
    /\ output = <<>>
    /\ output_base = count
    /\ entry_writer = None
    /\ data_writer = NoDataWriter
    /\ written = <<>>
    /\ write_result = NotYet
    /\ central_directory_offset = 0
    /\ central_directory_end = 0
    /\ ScanIdle
    /\ VerifyIdle
    /\ EntriesIdle
    /\ PathIdle
    /\ LocateIdle
    /\ GetEntryIdle
    /\ ZipReaderIdle
    /\ LocateReaderIdle
    /\ TimeIdle
    /\ ModeIdle
    /\ CivilIdle
    /\ MutexIdle

\* such a writer over a sink that takes every byte
InitWrite ==
    /\ InitWriter
    /\ sink_room = NoLimit

\* how many of n bytes the sink takes: <W as Write>::write returns that
\* many, and write_all fails when they are fewer than n
SinkTakes(n) == IF sink_room = NoLimit THEN n ELSE Min(n, sink_room)

\* the room of the sink after it took n bytes
SinkLeft(n) == IF sink_room = NoLimit THEN NoLimit ELSE sink_room - n

\* ErrorKind::IO, the error of a write_all the sink cut short
IoError == <<"IO">>

\* self.files.push(file_header) of a code without the `?` after its writes
push_always(ok, fs, file_header) == Append(fs, file_header)

\* self.files.push(file_header), reached when every write before it
\* returned Ok
push_after(ok, fs, file_header) == IF ok THEN Append(fs, file_header) ELSE fs

\* ZipArchiveWriter::new_dir(n).create(), on a writer given fewer than
\* max_files entries so far
NewDir(n, max_files) ==
    /\ pc = "writing"
    /\ entry_writer = None
    /\ Len(written) < max_files
    /\ LET file_path == from_str(n)
       IN  IF ~is_dir(file_path)
           THEN /\ write_result' = Err(InvalidInput("not a directory"))
                /\ UNCHANGED <<files, count, output, written, sink_room>>
           ELSE IF Len(file_path) > U16_MAX
           THEN /\ write_result' = Err(InvalidInput("directory name too long"))
                /\ UNCHANGED <<files, count, output, written, sink_room>>
           ELSE \E header \in {write_local_header(file_path, 0)} :
                \E taken \in {SinkTakes(Len(header))} :
                    /\ output' = output \o SubSeq(header, 1, taken)
                    /\ count' = count + taken
                    /\ sink_room' = SinkLeft(taken)
                    /\ files' = push_after(taken = Len(header), files,
                                           DirHeader(file_path, count))
                    /\ written' = IF taken = Len(header) THEN Append(written, <<n, <<>>>>)
                                  ELSE written
                    /\ write_result' = IF taken = Len(header) THEN Ok(<<>>) ELSE Err(IoError)
    /\ UNCHANGED <<pc, output_base, entry_writer, data_writer, central_directory_offset,
                   central_directory_end>>
    /\ UNCHANGED notWriteVars

\* ZipArchiveWriter::new_file(n).create(), then ZipDataWriter::new(&mut
\* file), on a writer given fewer than max_files entries so far
NewFile(n, max_files) ==
    /\ pc = "writing"
    /\ entry_writer = None
    /\ Len(written) < max_files
    /\ LET file_path == from_str(trim_end_slashes(n))
       IN  IF Len(file_path) > U16_MAX
           THEN /\ write_result' = Err(InvalidInput("file name too long"))
                /\ UNCHANGED <<count, output, entry_writer, written, sink_room>>
           ELSE \E header \in {write_local_header(file_path, FLAG_DATA_DESCRIPTOR)} :
                \E taken \in {SinkTakes(Len(header))} :
                    /\ output' = output \o SubSeq(header, 1, taken)
                    /\ count' = count + taken
                    /\ sink_room' = SinkLeft(taken)
                    /\ entry_writer' =
                           IF taken = Len(header)
                           THEN Some([name |-> file_path, local_header_offset |-> count,
                                      compressed_bytes |-> 0, compression_method |-> 0,
                                      flags |-> FLAG_DATA_DESCRIPTOR])
                           ELSE None
                    /\ written' = IF taken = Len(header) THEN Append(written, <<n, <<>>>>)
                                  ELSE written
                    /\ write_result' = IF taken = Len(header) THEN Ok(<<>>) ELSE Err(IoError)
    /\ data_writer' = NoDataWriter
    /\ UNCHANGED <<pc, files, output_base, central_directory_offset, central_directory_end>>
    /\ UNCHANGED notWriteVars

\* <ZipDataWriter as Write>::write(b) over the entry writer itself: the
\* bytes are stored, <ZipEntryWriter as Write>::write passes them on
DataWrite(b) ==
    /\ pc = "writing"
    /\ entry_writer # None
    /\ Len(written[Len(written)][2]) < MaxBodyLen
    /\ entry_writer[2].compressed_bytes + Len(b) <= ZIP64_THRESHOLD_FILE_SIZE + 1
    /\ data_writer.uncompressed_bytes + Len(b) <= ZIP64_THRESHOLD_FILE_SIZE + 1
    /\ \E taken \in {SubSeq(b, 1, SinkTakes(Len(b)))} :
          /\ output' = output \o taken
          /\ count' = count + Len(taken)
          /\ sink_room' = SinkLeft(Len(taken))
          /\ entry_writer' = Some([entry_writer[2] EXCEPT !.compressed_bytes = @ + Len(taken)])
          /\ data_writer' = [uncompressed_bytes |-> data_writer.uncompressed_bytes + Len(taken),
                             crc |-> crc32_chunk(taken, data_writer.crc)]
          /\ written' = [written EXCEPT ![Len(written)][2] = @ \o taken]
          /\ write_result' = Ok(Len(taken))
    /\ UNCHANGED <<pc, files, output_base, central_directory_offset, central_directory_end>>
    /\ UNCHANGED notWriteVars

\* <ZipEntryWriter as Write>::write of n bytes, a compressor's output, to a
\* sink that counts them and keeps none of what it was given so far
EntryWrite(n) ==
    /\ pc = "writing"
    /\ entry_writer # None
    /\ entry_writer[2].compressed_bytes + n <= ZIP64_THRESHOLD_FILE_SIZE + 1
    /\ \E taken \in {SinkTakes(n)} :
          /\ output' = <<>>
          /\ count' = count + taken
          /\ output_base' = count + taken
          /\ sink_room' = SinkLeft(taken)
          /\ entry_writer' = Some([entry_writer[2] EXCEPT !.compressed_bytes = @ + taken])
          /\ write_result' = Ok(taken)
    /\ UNCHANGED <<pc, files, data_writer, written, central_directory_offset,
                   central_directory_end>>
    /\ UNCHANGED notWriteVars

\* <ZipDataWriter as Write>::write of n bytes over a compressor that holds
\* its output back; c is the checksum of those bytes after the earlier ones
DataWriterWrite(n, c) ==
    /\ pc = "writing"
    /\ entry_writer # None
    /\ data_writer.uncompressed_bytes + n <= ZIP64_THRESHOLD_FILE_SIZE + 1
    /\ data_writer' = [uncompressed_bytes |-> data_writer.uncompressed_bytes + n, crc |-> c]
    /\ write_result' = Ok(n)
    /\ UNCHANGED <<pc, files, count, output, output_base, entry_writer, written,
                   central_directory_offset, central_directory_end, sink_room>>
    /\ UNCHANGED notWriteVars

\* ZipDataWriter::finish, then ZipEntryWriter::finish(output)
EntryFinish ==
    /\ pc = "writing"
    /\ entry_writer # None
    /\ LET e == entry_writer[2]
           descriptor_bytes ==
               write_data_descriptor(data_writer.crc, e.compressed_bytes,
                                     data_writer.uncompressed_bytes)
       IN  \E taken \in {SinkTakes(Len(descriptor_bytes))} :
           /\ output' = output \o SubSeq(descriptor_bytes, 1, taken)
           /\ count' = count + taken
           /\ sink_room' = SinkLeft(taken)
           /\ files' = push_after(taken = Len(descriptor_bytes), files,
                  [name |-> e.name, compression_method |-> e.compression_method,
                   local_header_offset |-> e.local_header_offset,
                   compressed_size |-> e.compressed_bytes,
                   uncompressed_size |-> data_writer.uncompressed_bytes,
                   crc |-> data_writer.crc, flags |-> e.flags])
           /\ write_result' = IF taken = Len(descriptor_bytes) THEN Ok(e.compressed_bytes)
                              ELSE Err(IoError)
    /\ entry_writer' = None
    /\ data_writer' = NoDataWriter
    /\ UNCHANGED <<pc, output_base, written, central_directory_offset, central_directory_end>>
    /\ UNCHANGED notWriteVars

\* ZipArchiveWriter::finish
Finish ==
    /\ pc = "writing"
    /\ entry_writer = None
    /\ \E cd \in {CentralDirectoryOf(files)} :
          /\ central_directory_offset' = count
          /\ central_directory_end' = count + Len(cd)
          /\ \E bytes \in {cd \o EndRecordsOf(files, count, Len(cd))} :
             \E taken \in {SinkTakes(Len(bytes))} :
                /\ output' = output \o SubSeq(bytes, 1, taken)
                /\ count' = count + taken
                /\ sink_room' = SinkLeft(taken)
                /\ write_result' = IF taken = Len(bytes) THEN Ok(<<>>) ELSE Err(IoError)
                /\ pc' = IF taken = Len(bytes) THEN "finished" ELSE "finish_failed"
    /\ UNCHANGED <<files, output_base, entry_writer, data_writer, written>>
    /\ UNCHANGED notWriteVars

NextWrite ==
    \/ \E n \in DirNames : NewDir(n, MaxFiles)
    \/ \E n \in FileNames : NewFile(n, MaxFiles)
    \/ \E n \in BulkLens : EntryWrite(n)
    \/ \E n \in BulkLens : DataWriterWrite(n, Zero32)
    \/ EntryFinish
    \/ Finish

SpecWrite == InitWrite /\ [][NextWrite]_vars

\* the central directory finish wrote, and what it wrote after it
WrittenCentralDirectory ==
    Slice(output, central_directory_offset - output_base, central_directory_end - output_base)

WrittenEndRecords == SliceFrom(output, central_directory_end - output_base)

\* the ZIP64 end-of-central-directory record and its locator stand before
\* the end-of-central-directory record
HasZip64Records ==
    LET t == WrittenEndRecords
    IN  /\ Len(t) = Zip64EndOfCentralDirectoryRecord_SIZE
                        + Zip64EndOfCentralDirectoryLocatorRecord_SIZE
                        + EndOfCentralDirectoryRecordFixed_SIZE
        /\ IsOk(Zip64EndOfCentralDirectoryRecord_parse(t))
        /\ IsOk(Zip64EndOfCentralDirectoryLocatorRecord_parse(
                    SliceFrom(t, Zip64EndOfCentralDirectoryRecord_SIZE)))

\* neither of them is anywhere behind the central directory
HasNoZip64Records ==
    LET t == WrittenEndRecords
    IN  /\ Len(t) = EndOfCentralDirectoryRecordFixed_SIZE
        /\ \A i \in 0..(Len(t) - 4) :
               /\ Slice(t, i, i + 4) # END_OF_CENTRAL_DIR_SIGNATURE64_BYTES
               /\ Slice(t, i, i + 4) # END_OF_CENTRAL_DIR_LOCATOR_SIGNATURE_BYTES

\* the archive has at least 65535 entries, or its central directory offset,
\* or a size or the local header offset of an entry, is at least threshold
AtThreshold(threshold) ==
    \/ Len(files) >= U16_MAX
    \/ central_directory_offset >= threshold
    \/ \E i \in 1..Len(files) :
           \/ files[i].compressed_size >= threshold
           \/ files[i].uncompressed_size >= threshold
           \/ files[i].local_header_offset >= threshold

\* C6 as stated: a finished archive holds the ZIP64 record and locator if it
\* has >= 65535 entries or an offset or size >= 2^32, and neither below that.
C6_Zip64FromTwoPow32 ==
    pc = "finished" =>
        /\ AtThreshold(U32_MAX + 1) => HasZip64Records
        /\ ~AtThreshold(U32_MAX + 1) => HasNoZip64Records

\* C6, amended: a finished archive holds the ZIP64 record and locator if it
\* has >= 65535 entries or an offset or size >= 0xFFFFFFFF (2^32 - 1), and
\* neither below that.
C6_Zip64FromSentinel ==
    pc = "finished" =>
        /\ AtThreshold(U32_MAX) => HasZip64Records
        /\ ~AtThreshold(U32_MAX) => HasNoZip64Records

\* an archive whose largest value is exactly 0xFFFFFFFF holds the records
C6_Witness ==
    /\ pc = "finished"
    /\ AtThreshold(U32_MAX)
    /\ ~AtThreshold(U32_MAX + 1)
    /\ HasZip64Records

\* the record ZipSliceEntries::next_entry reads at start of a central
\* directory, with the number of bytes it takes
RecordAt(bytes, start) ==
    IF start < 0 \/ start >= Len(bytes) THEN None
    ELSE LET file_header == ZipFileHeaderFixed_parse(SliceFrom(bytes, start))
         IN  IF IsErr(file_header) THEN None
             ELSE LET parts == parse_variable_length(file_header[2],
                                   SliceFrom(bytes, start + ZipFileHeaderFixed_SIZE))
                  IN  IF parts = None THEN None
                      ELSE Some([header |-> file_header[2],
                                 extra_field |-> parts[2][2],
                                 entry |-> from_parts(file_header[2], parts[2][1],
                                                      parts[2][2], parts[2][3]),
                                 size |-> ZipFileHeaderFixed_SIZE
                                              + variable_length(file_header[2])])

\* the n records ZipSliceEntries reads from start, None for one that cannot
\* be read, and the position it stands at after them, -1 after a failure
RECURSIVE ReadRecordsFrom(_, _, _)
ReadRecordsFrom(bytes, start, n) ==
    IF n = 0 THEN [records |-> <<>>, next |-> start]
    ELSE IF n = 1
         THEN CHOOSE one \in {IF r = None
                                  THEN [records |-> <<None>>, next |-> -1]
                                  ELSE [records |-> <<r>>, next |-> start + r[2].size] :
                              r \in {RecordAt(bytes, start)}} : TRUE
         ELSE CHOOSE both \in UNION {{[records |-> left.records \o right.records,
                                       next |-> right.next] :
                                          right \in {ReadRecordsFrom(bytes, left.next,
                                                                     n - (n \div 2))}} :
                                      left \in {ReadRecordsFrom(bytes, start, n \div 2)}} : TRUE

\* the first n records of a central directory, read as ZipSliceEntries
\* reads them
ReadRecords(bytes, n) == ReadRecordsFrom(bytes, 0, n)

\* the 0x0001 extra field of the values that are >= 0xFFFFFFFF, in the order
\* uncompressed size, compressed size, local header offset
ExpectedZip64Field(f) ==
    LET values == (IF f.uncompressed_size >= U32_MAX THEN <<f.uncompressed_size>> ELSE <<>>)
                  \o (IF f.compressed_size >= U32_MAX THEN <<f.compressed_size>> ELSE <<>>)
                  \o (IF f.local_header_offset >= U32_MAX
                      THEN <<f.local_header_offset>> ELSE <<>>)
    IN  IF values = <<>> THEN <<>>
        ELSE to_le_bytes(1, 2) \o to_le_bytes(8 * Len(values), 2)
                 \o to_le_bytes(values[1], 8)
                 \o (IF Len(values) > 1 THEN to_le_bytes(values[2], 8) ELSE <<>>)
                 \o (IF Len(values) > 2 THEN to_le_bytes(values[3], 8) ELSE <<>>)

\* the 32-bit field holds the sentinel if the value is >= 0xFFFFFFFF, and
\* the value otherwise
SentinelOrValue(field, value) == field = (IF value >= U32_MAX THEN U32_MAX ELSE value)

\* C7: every central directory record finish writes holds the sentinel in
\* exactly the fields whose value is >= 0xFFFFFFFF, a 0x0001 extra field of
\* just those values in the order uncompressed, compressed, offset, and an
\* extra field length equal to the bytes written; from_parts returns the
\* original values.
C7_Zip64FieldRoundTrip ==
    pc = "finished" =>
        \A parsed \in {ReadRecords(WrittenCentralDirectory, Len(files))} :
            /\ parsed.next = central_directory_end - central_directory_offset
            /\ \A i \in 1..Len(files) :
                   /\ parsed.records[i] # None
                   /\ \A f \in {files[i]}, r \in {parsed.records[i][2]},
                         expected \in {ExpectedZip64Field(files[i])} :
                          /\ SentinelOrValue(r.header.uncompressed_size, f.uncompressed_size)
                          /\ SentinelOrValue(r.header.compressed_size, f.compressed_size)
                          /\ SentinelOrValue(r.header.local_header_offset,
                                             f.local_header_offset)
                          /\ r.extra_field = expected
                          /\ r.header.extra_field_len = Len(expected)
                          /\ r.entry.uncompressed_size = f.uncompressed_size
                          /\ r.entry.compressed_size = f.compressed_size
                          /\ r.entry.local_header_offset = f.local_header_offset

\* an entry with all three values at or above 0xFFFFFFFF, two of them the
\* sentinel itself
C7_Witness ==
    /\ pc = "finished"
    /\ Len(files) = 1
    /\ files[1].local_header_offset = U32_MAX
    /\ files[1].uncompressed_size = U32_MAX
    /\ files[1].compressed_size = U32_MAX + 1
    /\ ReadRecords(WrittenCentralDirectory, 1).records[1] # None

-----------------------------------------------------------------------------
(* Writing an archive and reading it back (writer.rs, archive.rs).  The    *)
(* writer starts at offset 0 and its sink keeps every byte; the finished   *)
(* output is opened as a slice archive and as a positioned-read archive    *)
(* over the same bytes, and both iterators run to their end.               *)

\* a new writer at offset 0
InitRoundTrip ==
    /\ InitWrite
    /\ files = <<>>
    /\ count = 0

\* ZipFileHeaderRecord::wayfinder
record_wayfinder(r) ==
    [uncompressed_size |-> r.uncompressed_size, compressed_size |-> r.compressed_size,
     local_header_offset |-> r.local_header_offset,
     has_data_descriptor |-> (r.flags \div 8) % 2 = 1, crc |-> r.crc32]

\* ZipLocator::locate_in_slice(output), then ZipSliceArchive::entries and
\* ZipArchive::entries(buffer) over the same end-of-central-directory
\* record, with a buffer as long as the archive
OpenArchive ==
    /\ pc = "finished"
    /\ output_base = 0
    /\ data' = output
    /\ buffer' = Zeros(Len(output))
    /\ \E found \in {locate_in_byte_slice(output, Len(output))} :
          /\ located' = found
          /\ IF IsErr(found)
             THEN /\ pc' = "open_failed"
                  /\ UNCHANGED <<located_entries, entry_data, entries_offset, base_offset,
                                 central_dir_end_pos>>
             ELSE \E range \in {SliceArchiveEntryData(output, found[2])} :
                      /\ located_entries' = range
                      /\ pc' = IF range = Panic THEN "open_failed" ELSE "slice_entries"
                      /\ entry_data' = IF range = Panic THEN <<>> ELSE range[2]
                      /\ entries_offset' = eocd_offset(found[2])
                      /\ base_offset' = eocd_base_offset(found[2])
                      /\ central_dir_end_pos' = end_position(found[2])
    /\ UNCHANGED <<slice_records, slice_result, pos, end, reader_records, reader_result>>
    /\ UNCHANGED <<scanVars, verifyVars, pathVars, getEntryVars, writeVars, zipReaderVars,
                   locateReaderVars, timeVars,
                   modeVars, civilVars, mutexVars>>

NextRoundTrip ==
    \/ \E n \in FileNames : NewFile(n, MaxRecords)
    \/ \E b \in WriteBytes : DataWrite(b)
    \/ EntryFinish
    \/ Finish
    \/ OpenArchive
    \/ SliceNextEntry
    \/ \E short1 \in BOOLEAN, short2 \in BOOLEAN : ReaderNextEntry(short1, short2)

SpecRoundTrip == InitRoundTrip /\ [][NextRoundTrip]_vars

\* <ZipSliceVerifier as Read>::read up to the read that ends the content
slice_verifier_read_to_end(expected, content) ==
    InvalidData(valid(expected, ZipVerification(crc32(content), Len(content))))

\* DataDescriptor::read_at(reader, at)
DataDescriptor_read_at(d, at) ==
    LET bytes == read_exact_at(d, DataDescriptor_SIZE, at)
    IN  IF IsErr(bytes) THEN bytes ELSE DataDescriptor_parse(bytes[2])

\* <ZipVerifier as Read>::read up to the read that ends the content, on the
\* entry e of a reader over d
zip_verifier_read_to_end(d, e, content) ==
    LET crc_read == IF e.entry.has_data_descriptor
                    THEN DataDescriptor_read_at(d, e.body_end_offset)
                    ELSE Ok([crc |-> crc32(content)])
        expected == ZipVerification(crc32(content), e.entry.uncompressed_size)
    IN  InvalidData(IF IsErr(crc_read) THEN crc_read
                    ELSE valid(expected, ZipVerification(crc_read[2].crc, Len(content))))

\* <ZipReader as Read>::read to the end: the bytes of the entry's range
zip_reader_read_to_end(d, e) ==
    Slice(d, Min(e.body_offset, Len(d)), Min(e.body_end_offset, Len(d)))

\* the record is the k-th entry written: its name, its size, and through
\* the slice archive its data, verified
SliceReadsBack(r, k) ==
    /\ r.file_name = written[k][1]
    /\ r.uncompressed_size = Len(written[k][2])
    /\ \E e \in {slice_get_entry(data, record_wayfinder(r))} :
          /\ IsOk(e)
          /\ e[2].data = written[k][2]
          /\ slice_verifier_read_to_end(e[2].verifier, e[2].data) = Ok(<<>>)

\* the same through the positioned-read archive
ReaderReadsBack(r, k) ==
    /\ r.file_name = written[k][1]
    /\ r.uncompressed_size = Len(written[k][2])
    /\ \E e \in {reader_get_entry(data, record_wayfinder(r), TRUE)} :
          /\ IsOk(e)
          /\ zip_reader_read_to_end(data, e[2]) = written[k][2]
          /\ zip_verifier_read_to_end(data, e[2], zip_reader_read_to_end(data, e[2]))
                 = Ok(<<>>)

\* C5: the entries written through the writer and finished are read back by
\* the slice archive and by the positioned-read archive: the same names in
\* the same order, uncompressed sizes equal to the byte lengths, the data
\* identical to the bytes written, verification succeeding.
C5_RoundTrip ==
    pc = "entries_done" =>
        /\ Len(slice_records) = Len(written)
        /\ \A k \in 1..Len(slice_records) : SliceReadsBack(slice_records[k], k)
        /\ Len(reader_records) = Len(written)
        /\ \A k \in 1..Len(reader_records) : ReaderReadsBack(reader_records[k], k)

-----------------------------------------------------------------------------
(* The bounded reader of an entry's compressed data (archive.rs).          *)

\* a - b on u64 in the build without overflow checks, the only build in
\* which get_entry can have returned an end_offset below the offset
wrapping_sub_u64(a, b) == (a - b) % (U64_MAX + 1)

\* <&[u8] as ReaderAt>::read_at(buf, at) with buf.len() = len: how many
\* bytes the slice d gives
slice_read_at(d, len, at) == Min(Len(d) - Min(Len(d), at), len)

\* the lengths of the bufs handed to ZipReader::read
ZipReaderBufLens == 0..(MaxBodyLen + 1)

\* a reader and a wayfinder, as for get_entry
InitZipReader ==
    /\ pc = "zip_reader_entry"
    /\ data \in GetEntryData
    /\ buffer = <<>>
    /\ entry_wayfinder \in GetEntryWayfinders
    /\ slice_entry = NotYet
    /\ reader_entry = NotYet
    /\ ScanIdle
    /\ VerifyIdle
    /\ EntriesIdle
    /\ PathIdle
    /\ LocateIdle
    /\ WriteIdle
    /\ ZipReaderIdle
    /\ LocateReaderIdle
    /\ TimeIdle
    /\ ModeIdle
    /\ CivilIdle
    /\ MutexIdle

\* ZipArchive::get_entry(wayfinder), then ZipEntry::reader
ZipEntryReader(overflow_checks) ==
    /\ pc = "zip_reader_entry"
    /\ \E e \in {reader_get_entry(data, entry_wayfinder, overflow_checks)} :
          /\ reader_entry' = e
          /\ IF IsOk(e)
             THEN /\ zip_reader' = Some([offset |-> e[2].body_offset,
                                         end_offset |-> e[2].body_end_offset])
                  /\ pc' = "zip_reader"
             ELSE /\ zip_reader' = None
                  /\ pc' = "zip_reader_failed"
    /\ UNCHANGED <<data, buffer, entry_wayfinder, slice_entry, zip_reader_buf, zip_reader_read>>
    /\ UNCHANGED <<scanVars, verifyVars, entriesVars, pathVars, locateVars, writeVars, locateReaderVars,
                 timeVars,
                   modeVars, civilVars, mutexVars>>

\* <ZipReader as Read>::read(buf) with buf.len() = len, the reader's read_at
\* returning n bytes
ZipReaderRead(len, n) ==
    /\ pc = "zip_reader"
    /\ LET r == zip_reader[2]
           wanted == Min(len, wrapping_sub_u64(r.end_offset, r.offset))
           available == slice_read_at(data, wanted, r.offset)
       IN  /\ n \in (IF available = 0 THEN {0} ELSE 1..available)
           /\ zip_reader' = Some([r EXCEPT !.offset = @ + n])
           /\ zip_reader_buf' = len
           /\ zip_reader_read' = Ok([from |-> r.offset, len |-> n])
    /\ UNCHANGED <<pc, data, buffer, entry_wayfinder, slice_entry, reader_entry>>
    /\ UNCHANGED <<scanVars, verifyVars, entriesVars, pathVars, locateVars, writeVars, locateReaderVars,
                 timeVars,
                   modeVars, civilVars, mutexVars>>

NextZipReader ==
    \/ \E overflow_checks \in BOOLEAN : ZipEntryReader(overflow_checks)
    \/ \E len \in ZipReaderBufLens, n \in 0..(MaxBodyLen + 1) : ZipReaderRead(len, n)

SpecZipReader == InitZipReader /\ [][NextZipReader]_vars

\* C11: for every wayfinder the reader's cursor stays in the entry's range
\* body_offset .. body_offset + compressed_size, which is computed without
\* wrap-around; a read returns at most min(buf.len, end - cursor) bytes from
\* [cursor, end), advances the cursor by them, and returns 0 at the end.
C11_ReaderStaysInRange ==
    pc = "zip_reader" =>
        LET start == reader_entry[2].body_offset
            stop == start + entry_wayfinder.compressed_size
            r == zip_reader[2]
        IN  /\ r.end_offset = stop
            /\ start <= r.offset
            /\ r.offset <= stop
            /\ zip_reader_read # NotYet =>
                   LET got == zip_reader_read[2]
                   IN  /\ got.len <= Min(zip_reader_buf, stop - got.from)
                       /\ start <= got.from
                       /\ got.from + got.len <= stop
                       /\ r.offset = got.from + got.len
                       /\ got.from = stop => got.len = 0

-----------------------------------------------------------------------------
(* The checksum comparison of the verifying readers (archive.rs).          *)

\* the stored checksum: the data descriptor's when the entry has one, the
\* central directory's otherwise
StoredCrc == IF wayfinder.has_data_descriptor THEN descriptor[2] ELSE wayfinder.crc

\* C12: the comparison is skipped exactly when the stored checksum is zero;
\* a nonzero stored checksum that differs from the computed one fails with
\* InvalidChecksum(expected = stored, actual = computed), whatever the
\* computed checksum is.
C12_StoredChecksumCompared ==
    (/\ pc = "verifying"
     /\ Checked
     /\ ~DescriptorUnreadable
     /\ size = wayfinder.uncompressed_size)
        => IF StoredCrc = Zero32 \/ StoredCrc = crc32(consumed)
           THEN read_result = Ok(read)
           ELSE read_result = Err(<<"InvalidData",
                                    InvalidChecksum(StoredCrc, crc32(consumed))>>)

-----------------------------------------------------------------------------
(* ZipLocator::locate_in_reader and locate_in_slice on the same data       *)
(* (locator.rs).  The reader is a slice reader over data: every read_at    *)
(* returns as many bytes as the data and the buffer allow.                 *)

MissingZip64EndOfCentralDirectory == <<"MissingZip64EndOfCentralDirectory">>

\* a signature no record has
WRONG_SIGNATURE_BYTES == <<80, 75, 0, 0>>

\* a record with its first four bytes replaced
WithSignature(bytes, signature) == signature \o SliceFrom(bytes, 4)

\* an end-of-central-directory record with its comment length replaced
WithCommentLen(bytes, comment_len) == Slice(bytes, 0, 20) \o to_le_bytes(comment_len, 2)

\* the lengths of the buffers handed to locate_in_reader: too short for the
\* signature, just the signature, just the fixed record, between the fixed
\* record and the ZIP64 record, just the ZIP64 record, and the whole input
LocatorBufLens ==
    {Len(END_OF_CENTRAL_DIR_SIGNAUTRE_BYTES) - 1, Len(END_OF_CENTRAL_DIR_SIGNAUTRE_BYTES),
     EndOfCentralDirectoryRecordFixed_SIZE, EndOfCentralDirectoryRecordFixed_SIZE + 8,
     Zip64EndOfCentralDirectoryRecord_SIZE,
     MaxLead + Zip64EndOfCentralDirectoryRecord_SIZE
         + Zip64EndOfCentralDirectoryLocatorRecord_SIZE + EndOfCentralDirectoryRecordFixed_SIZE + 1}

\* the fixed records that carry a ZIP64 sentinel
SentinelRecords ==
    {EndOfCentralDirectoryBytes(U16_MAX, 0, 0), EndOfCentralDirectoryBytes(0, 0, U32_MAX)}

\* the inputs without an end-of-central-directory signature
NoRecordData ==
    {<<>>, Zeros(1), Slice(END_OF_CENTRAL_DIR_SIGNAUTRE_BYTES, 0, 3),
     Zeros(EndOfCentralDirectoryRecordFixed_SIZE)}

\* the inputs with a lone fixed record: plain ones with bytes before and
\* after, and ones with a sentinel but nothing in front
PlainRecordData ==
    {Zeros(lead) \o EndOfCentralDirectoryBytes(n, 0, cd_offset) \o Zeros(tail) :
         lead \in 0..MaxLead, n \in 0..1, cd_offset \in 0..1, tail \in 0..1}
    \cup {Zeros(lead) \o e : lead \in 0..MaxLead, e \in SentinelRecords}

\* the inputs with ZIP64 records: the ZIP64 record and the locator with a
\* right or a wrong signature, the locator naming the record's place, the
\* start of the data, the fixed record's place or a place beyond the data
Zip64RecordData ==
    {Zeros(lead) \o WithSignature(write_zip64_eocd(n, 0, cd_offset), s64)
         \o WithSignature(write_zip64_eocd_locator(directory_offset), sl) \o e :
       lead \in {0, MaxLead}, n \in 0..1, cd_offset \in 0..1,
       s64 \in {END_OF_CENTRAL_DIR_SIGNATURE64_BYTES, WRONG_SIGNATURE_BYTES},
       sl \in {END_OF_CENTRAL_DIR_LOCATOR_SIGNATURE_BYTES, WRONG_SIGNATURE_BYTES},
       directory_offset \in
           {0, MaxLead,
            MaxLead + Zip64EndOfCentralDirectoryRecord_SIZE
                + Zip64EndOfCentralDirectoryLocatorRecord_SIZE,
            U64_MAX},
       e \in SentinelRecords}

\* ZIP64 inputs whose fixed record announces a one-byte comment that is or
\* is not there
CommentRecordData ==
    {write_zip64_eocd(1, 0, 0) \o write_zip64_eocd_locator(0)
         \o WithCommentLen(e, 1) \o Zeros(tail) :
       e \in SentinelRecords, tail \in 0..1}

LocatorData == NoRecordData \cup PlainRecordData \cup Zip64RecordData \cup CommentRecordData

\* EndOfCentralDirectory::entries
eocd_entries(e) == IF IsSome(e.zip64) THEN e.zip64[2].num_entries ELSE e.eocd.num_entries

\* ReaderAtExt::try_read_at_least_at(buffer, size, off) on a slice reader
\* over d: the bytes it puts at the front of the buffer
try_read_at_least_at(d, buf_len, min_size, off) ==
    IF Min(min_size, buf_len) = 0 THEN <<>>
    ELSE Slice(d, Min(off, Len(d)), Min(off, Len(d)) + slice_read_at(d, buf_len, off))

\* locate_in_reader, the fixed record: parsed from buffer[buffer_pos..
\* buffer_valid_len], or read again at stream_pos when that is too short.
\* t is the scan's (stream_pos, buffer_pos, buffer_valid_len)
LocateFixedRecord(d, buf, t) ==
    LET first == EndOfCentralDirectoryRecordFixed_parse(Slice(buf, t[2], t[3]))
    IN  IF IsOk(first)
        THEN [error |-> None, eocd |-> first[2],
              rest |-> Slice(buf, t[2] + EndOfCentralDirectoryRecordFixed_SIZE, t[3]),
              buffer |-> buf, marked |-> FALSE]
        ELSE IF first[2] # Eof
        THEN [error |-> first, eocd |-> None, rest |-> <<>>, buffer |-> buf, marked |-> FALSE]
        ELSE LET rd == read_at_least_at(d, Len(buf), EndOfCentralDirectoryRecordFixed_SIZE,
                                        t[1], FALSE)
             IN  IF IsErr(rd)
                 THEN [error |-> rd, eocd |-> None, rest |-> <<>>, buffer |-> buf,
                       marked |-> FALSE]
                 ELSE LET again == EndOfCentralDirectoryRecordFixed_parse(rd[2])
                      IN  IF IsErr(again)
                          THEN [error |-> again, eocd |-> None, rest |-> <<>>,
                                buffer |-> WritePrefix(buf, rd[2]), marked |-> TRUE]
                          ELSE [error |-> None, eocd |-> again[2],
                                rest |-> SliceFrom(rd[2], EndOfCentralDirectoryRecordFixed_SIZE),
                                buffer |-> WritePrefix(buf, rd[2]), marked |-> TRUE]

\* locate_in_reader, the comment: taken from what follows the fixed record
\* in the buffer, the missing part read at its place in the stream
LocateComment(d, t, fixed) ==
    LET comment_len == fixed.eocd.comment_len
        have == Len(fixed.rest)
    IN  IF have < comment_len
        THEN LET rd == read_exact_at(d, comment_len - have,
                                     t[1] + EndOfCentralDirectoryRecordFixed_SIZE + have)
             IN  IF IsErr(rd) THEN [error |-> rd, comment |-> <<>>, marked |-> fixed.marked]
                 ELSE [error |-> None, comment |-> fixed.rest \o rd[2], marked |-> TRUE]
        ELSE [error |-> None, comment |-> Slice(fixed.rest, 0, comment_len),
              marked |-> fixed.marked]

\* locate_in_reader, the ZIP64 locator: the 20 bytes in front of the fixed
\* record, from the buffer when no read was issued since the scan and they
\* are there, or read at stream_pos - 20
LocateZip64Locator(d, buf, t, marked) ==
    IF marked \/ Zip64EndOfCentralDirectoryLocatorRecord_SIZE > t[2]
    THEN IF Zip64EndOfCentralDirectoryLocatorRecord_SIZE > t[1]
         THEN [error |-> Err(MissingZip64EndOfCentralDirectory), locator |-> None,
               buffer |-> buf, marked |-> marked]
         ELSE LET rd == read_exact_at(d, Zip64EndOfCentralDirectoryLocatorRecord_SIZE,
                                      t[1] - Zip64EndOfCentralDirectoryLocatorRecord_SIZE)
              IN  IF IsErr(rd)
                  THEN [error |-> rd, locator |-> None, buffer |-> buf, marked |-> marked]
                  ELSE LET parsed == Zip64EndOfCentralDirectoryLocatorRecord_parse(rd[2])
                       IN  [error |-> IF IsErr(parsed) THEN parsed ELSE None,
                            locator |-> IF IsErr(parsed) THEN None ELSE parsed[2],
                            buffer |-> WritePrefix(buf, rd[2]), marked |-> TRUE]
    ELSE LET at == t[2] - Zip64EndOfCentralDirectoryLocatorRecord_SIZE
             parsed == Zip64EndOfCentralDirectoryLocatorRecord_parse(
                           Slice(buf, at, at + Zip64EndOfCentralDirectoryLocatorRecord_SIZE))
         IN  [error |-> IF IsErr(parsed) THEN parsed ELSE None,
              locator |-> IF IsErr(parsed) THEN None ELSE parsed[2],
              buffer |-> buf, marked |-> marked]

\* locate_in_reader, the ZIP64 record: from the buffer when no read was
\* issued since the scan and the record starts inside it, or read at the
\* offset the locator names
LocateZip64Record(d, buf, t, marked, directory_offset) ==
    IF marked \/ directory_offset > t[1] \/ t[1] - directory_offset > t[2]
    THEN LET rd == try_read_at_least_at(d, Len(buf), Zip64EndOfCentralDirectoryRecord_SIZE,
                                        directory_offset)
             parsed == Zip64EndOfCentralDirectoryRecord_parse(rd)
         IN  [error |-> IF IsErr(parsed) THEN parsed ELSE None,
              record |-> IF IsErr(parsed) THEN None ELSE parsed[2],
              buffer |-> WritePrefix(buf, rd)]
    ELSE LET parsed == Zip64EndOfCentralDirectoryRecord_parse(
                           Slice(buf, t[2] - (t[1] - directory_offset), t[3]))
         IN  [error |-> IF IsErr(parsed) THEN parsed ELSE None,
              record |-> IF IsErr(parsed) THEN None ELSE parsed[2],
              buffer |-> buf]

\* ZipLocator::locate_in_reader after the scan returned loc: the result and
\* the buffer it leaves.  An error comes with the reader, which is d
locate_in_reader(d, buf, loc) ==
    IF loc = Panic THEN [result |-> Panic, buffer |-> buf]
    ELSE IF loc = None
    THEN [result |-> Err(<<d, MissingEndOfCentralDirectory>>), buffer |-> buf]
    ELSE IF IsErr(loc) THEN [result |-> Err(<<d, loc[2]>>), buffer |-> buf]
    ELSE LET t == loc[2]
             fixed == LocateFixedRecord(d, buf, t)
         IN  IF fixed.error # None
             THEN [result |-> Err(<<d, fixed.error[2]>>), buffer |-> fixed.buffer]
             ELSE LET comment == LocateComment(d, t, fixed)
                  IN  IF comment.error # None
                      THEN [result |-> Err(<<d, comment.error[2]>>), buffer |-> fixed.buffer]
                      ELSE IF ~is_zip64(fixed.eocd)
                      THEN [result |-> Ok([reader |-> d, comment |-> comment.comment,
                                           eocd |-> [zip64 |-> None, eocd |-> fixed.eocd,
                                                     stream_pos |-> t[1]]]),
                            buffer |-> fixed.buffer]
                      ELSE LET l == LocateZip64Locator(d, fixed.buffer, t, comment.marked)
                           IN  IF l.error # None
                               THEN [result |-> Err(<<d, l.error[2]>>), buffer |-> l.buffer]
                               ELSE LET z == LocateZip64Record(d, l.buffer, t, l.marked,
                                                               l.locator.directory_offset)
                                    IN  IF z.error # None
                                        THEN [result |-> Err(<<d, z.error[2]>>),
                                              buffer |-> z.buffer]
                                        ELSE [result |->
                                                  Ok([reader |-> d,
                                                      comment |-> comment.comment,
                                                      eocd |-> [zip64 |-> Some(z.record),
                                                                eocd |-> fixed.eocd,
                                                                stream_pos |->
                                                                    l.locator.directory_offset]]),
                                              buffer |-> z.buffer]

\* a locate_in_slice that does not hand the data back when it fails
locate_in_slice_dropping_data(d, max_search) ==
    LET found == locate_in_byte_slice(d, max_search)
    IN  IF IsOk(found) THEN Ok([data |-> d, eocd |-> found[2]]) ELSE Err(<<<<>>, found[2]>>)

\* ZipLocator::locate_in_slice(data): the archive, or the data and the error
locate_in_slice(d, max_search) ==
    LET found == locate_in_byte_slice(d, max_search)
    IN  IF IsOk(found) THEN Ok([data |-> d, eocd |-> found[2]]) ELSE Err(<<d, found[2]>>)

InitLocator ==
    /\ pc = "find_start"
    /\ data \in LocatorData
    /\ buffer \in {Zeros(n) : n \in LocatorBufLens}
    /\ max_search_space \in {0, EndOfCentralDirectoryRecordFixed_SIZE, Len(data)}
    /\ offset = 0
    /\ remaining = 0
    /\ carry_over = 0
    /\ read_size = 0
    /\ location_result = NotYet
    /\ VerifyIdle
    /\ EntriesIdle
    /\ PathIdle
    /\ LocateIdle
    /\ GetEntryIdle
    /\ WriteIdle
    /\ ZipReaderIdle
    /\ LocateReaderIdle
    /\ TimeIdle
    /\ ModeIdle
    /\ CivilIdle
    /\ MutexIdle

\* ZipLocator::locate_in_reader(data, buffer, data.len()), after its scan
LocateInReader ==
    /\ pc = "find_done"
    /\ reader_archive = NotYet
    /\ \E out \in {locate_in_reader(data, buffer, location_result)} :
           /\ reader_archive' = out.result
           /\ buffer' = out.buffer
    /\ pc' = "reader_located"
    /\ UNCHANGED <<data, scanVars, slice_archive>>
    /\ UNCHANGED <<verifyVars, entriesVars, pathVars, locateVars, getEntryVars, writeVars,
                   zipReaderVars, timeVars,
                   modeVars, civilVars, mutexVars>>

\* ZipLocator::locate_in_slice(data) with the same search space
LocateSameInSlice ==
    /\ pc = "reader_located"
    /\ slice_archive' = locate_in_slice(data, max_search_space)
    /\ pc' = "both_located"
    /\ UNCHANGED <<data, buffer, scanVars, reader_archive>>
    /\ UNCHANGED <<verifyVars, entriesVars, pathVars, locateVars, getEntryVars, writeVars,
                   zipReaderVars, timeVars,
                   modeVars, civilVars, mutexVars>>

NextLocator ==
    \/ FindBufferTooSmall
    \/ FindBegin
    \/ FindLoop
    \/ LocateInReader
    \/ LocateSameInSlice

SpecLocator == InitLocator /\ [][NextLocator]_vars

\* where the slice scan finds the fixed record in the data, or None
LocatorLocation == find_end_of_central_dir_signature(data, max_search_space)

\* the fixed record parsed at that place
LocatorFixedRecord ==
    EndOfCentralDirectoryRecordFixed_parse(SliceFrom(data, LocatorLocation[2]))

\* the case of C13: the fixed record is found and parsed, its comment is in
\* the data, the buffer holds a fixed record, and a record with a sentinel
\* has 20 bytes in front of it
Zip64Case ==
    /\ pc = "both_located"
    /\ LocatorLocation # None
    /\ IsOk(LocatorFixedRecord)
    /\ LocatorLocation[2] + EndOfCentralDirectoryRecordFixed_SIZE
           + LocatorFixedRecord[2].comment_len <= Len(data)
    /\ Len(buffer) >= EndOfCentralDirectoryRecordFixed_SIZE
    /\ is_zip64(LocatorFixedRecord[2]) =>
           LocatorLocation[2] >= Zip64EndOfCentralDirectoryLocatorRecord_SIZE

\* what C13 says the locators return in that case: an archive description,
\* an error, or nothing said (the locator names a place with fewer than 56
\* bytes of data)
Zip64Expected ==
    LET at == LocatorLocation[2]
        e == LocatorFixedRecord[2]
    IN  IF ~(e.num_entries = U16_MAX \/ e.central_dir_offset = U32_MAX)
        THEN Ok([zip64 |-> None, eocd |-> e, stream_pos |-> at])
        ELSE LET l == Zip64EndOfCentralDirectoryLocatorRecord_parse(
                          Slice(data, at - Zip64EndOfCentralDirectoryLocatorRecord_SIZE, at))
             IN  IF IsErr(l) THEN l
                 ELSE IF l[2].directory_offset + Zip64EndOfCentralDirectoryRecord_SIZE > Len(data)
                 THEN <<"Unsaid">>
                 ELSE LET z == Zip64EndOfCentralDirectoryRecord_parse(
                                   Slice(data, l[2].directory_offset,
                                         l[2].directory_offset
                                             + Zip64EndOfCentralDirectoryRecord_SIZE))
                      IN  IF IsErr(z) THEN z
                          ELSE Ok([zip64 |-> Some(z[2]), eocd |-> e,
                                   stream_pos |-> l[2].directory_offset])

\* the archive or error r is what C13 expects
AsExpected(r, expected) ==
    \/ expected = <<"Unsaid">>
    \/ /\ IsErr(expected)
       /\ expected[2][1] = "InvalidSignature"
       /\ IsErr(r)
       /\ r[2][2] = expected[2]
    \/ /\ IsOk(expected)
       /\ IsOk(r)
       /\ r[2].eocd = expected[2]
       /\ IsSome(expected[2].zip64) =>
              /\ eocd_entries(r[2].eocd) = expected[2].zip64[2].num_entries
              /\ eocd_offset(r[2].eocd) = expected[2].zip64[2].central_dir_offset
              /\ end_position(r[2].eocd) = expected[2].stream_pos

\* C13: once the fixed record is parsed, the archive is ZIP64 exactly when
\* num_entries is 0xFFFF or central_dir_offset is 0xFFFFFFFF; then the
\* locator in front of the fixed record and the ZIP64 record at the offset
\* it names are parsed, the entry count and the central directory offset
\* come from the ZIP64 record and stream_pos is the ZIP64 record's offset; a
\* wrong signature in either record is InvalidSignature; the slice locator
\* and the reader locator alike.
C13_Zip64RecordsResolved ==
    Zip64Case => /\ AsExpected(slice_archive, Zip64Expected)
                 /\ AsExpected(reader_archive, Zip64Expected)

\* the same for the slice locator alone
C13_SliceResolved == Zip64Case => AsExpected(slice_archive, Zip64Expected)

\* the same for the reader locator with a buffer that holds a ZIP64 record
C13_ReaderResolvedInLargeBuffer ==
    (Zip64Case /\ Len(buffer) >= Zip64EndOfCentralDirectoryRecord_SIZE)
        => AsExpected(reader_archive, Zip64Expected)

\* C15: when no end-of-central-directory signature lies entirely inside the
\* search window, the empty input included, locate_in_slice and
\* locate_in_reader (with a buffer of at least 4 bytes) both fail with
\* MissingEndOfCentralDirectory and hand back the data or the reader.
C15_MissingRecordReturnsInput ==
    (/\ pc = "both_located"
     /\ Len(buffer) >= Len(END_OF_CENTRAL_DIR_SIGNAUTRE_BYTES)
     /\ LastSignatureInWindow(data, max_search_space) = None)
        => /\ slice_archive = Err(<<data, MissingEndOfCentralDirectory>>)
           /\ reader_archive = Err(<<data, MissingEndOfCentralDirectory>>)

\* both locators failed on data that holds a signature outside a search
\* window that is not empty
C15_Witness ==
    /\ pc = "both_located"
    /\ Len(buffer) >= Len(END_OF_CENTRAL_DIR_SIGNAUTRE_BYTES)
    /\ max_search_space > 0
    /\ LastSignatureInWindow(data, max_search_space) = None
    /\ LastSignatureInWindow(data, Len(data)) # None
    /\ slice_archive = Err(<<data, MissingEndOfCentralDirectory>>)
    /\ reader_archive = Err(<<data, MissingEndOfCentralDirectory>>)

-----------------------------------------------------------------------------
(* An archive of the writer behind prepended data, opened and iterated     *)
(* (writer.rs, locator.rs, archive.rs).                                    *)

\* the data an archive is placed after: nothing, a few bytes, an
\* end-of-central-directory signature, a whole end-of-central-directory
\* record with a byte behind it
Prefixes ==
    {Zeros(n) : n \in 0..MaxLead}
        \cup {END_OF_CENTRAL_DIR_SIGNAUTRE_BYTES, EndOfCentralDirectoryBytes(1, 1, 1) \o Zeros(1)}

\* a writer made with new (start 0) or at_offset(start), no entry yet
InitPrefixed ==
    /\ InitWrite
    /\ files = <<>>
    /\ output_base \in {0, ZIP64_THRESHOLD_OFFSET}

\* the archive file: the output_base bytes the writer was told to start
\* after, the prepended data and the writer's output; then
\* ZipLocator::locate_in_slice, ZipSliceArchive::entries and
\* ZipArchive::entries(buffer) with a buffer as long as the file
OpenPrefixed(prefix) ==
    /\ pc = "finished"
    /\ \E file \in {Zeros(output_base) \o prefix \o output} :
          /\ data' = file
          /\ buffer' = Zeros(Len(file))
          /\ \E found \in {locate_in_byte_slice(file, Len(file))} :
                /\ located' = found
                /\ IF IsErr(found)
                   THEN /\ pc' = "open_failed"
                        /\ UNCHANGED <<located_entries, entry_data, entries_offset, base_offset,
                                       central_dir_end_pos>>
                   ELSE \E range \in {SliceArchiveEntryData(file, found[2])} :
                            /\ located_entries' = range
                            /\ pc' = IF range = Panic THEN "open_failed" ELSE "slice_entries"
                            /\ entry_data' = IF range = Panic THEN <<>> ELSE range[2]
                            /\ entries_offset' = eocd_offset(found[2])
                            /\ base_offset' = eocd_base_offset(found[2])
                            /\ central_dir_end_pos' = end_position(found[2])
    /\ UNCHANGED <<slice_records, slice_result, pos, end, reader_records, reader_result>>
    /\ UNCHANGED <<scanVars, verifyVars, pathVars, getEntryVars, writeVars, zipReaderVars,
                   locateReaderVars, timeVars,
                   modeVars, civilVars, mutexVars>>

NextPrefixed ==
    \/ NewFile(<<CHAR_A>>, MaxRecords)
    \/ DataWrite(Zeros(1))
    \/ EntryFinish
    \/ Finish
    \/ \E prefix \in Prefixes : OpenPrefixed(prefix)
    \/ SliceNextEntry
    \/ \E short1 \in BOOLEAN, short2 \in BOOLEAN : ReaderNextEntry(short1, short2)

SpecPrefixed == InitPrefixed /\ [][NextPrefixed]_vars

\* the archive was opened and is being, or has been, iterated
Opened == pc \in {"slice_entries", "reader_entries", "entries_done"} /\ IsOk(located)

\* the number of bytes the archive was placed after
PrefixLen == Len(data) - Len(output) - output_base

\* the yielded record r is the k-th entry written and its local header
\* offset is where that entry's local header stands in the file
YieldedAtLocalHeader(r, k) ==
    /\ r.local_header_offset = PrefixLen + files[k].local_header_offset
    /\ \E header \in {write_local_header(files[k].name, files[k].flags)} :
           Slice(data, r.local_header_offset, r.local_header_offset + Len(header)) = header

\* C14: base_offset is 0 for a ZIP64 archive and otherwise stream_pos -
\* central_dir_size - central_dir_offset, saturating at 0; for a non-ZIP64
\* archive the writer produced from offset 0, placed after p bytes,
\* base_offset is p and every local header offset an iterator yields is the
\* place of that entry's local header in the file.
C14_BaseOffsetIsPrefix ==
    Opened =>
        /\ base_offset =
               IF IsSome(located[2].zip64) THEN 0
               ELSE Max(0, located[2].stream_pos - located[2].eocd.central_dir_size
                               - located[2].eocd.central_dir_offset)
        /\ (~IsSome(located[2].zip64) /\ output_base = 0) =>
               /\ base_offset = PrefixLen
               /\ \A k \in 1..Len(slice_records) : YieldedAtLocalHeader(slice_records[k], k)
               /\ \A k \in 1..Len(reader_records) : YieldedAtLocalHeader(reader_records[k], k)

\* two entries behind prepended data that holds an end-of-central-directory
\* record of its own, yielded by both iterators
C14_Witness ==
    /\ pc = "entries_done"
    /\ IsOk(located)
    /\ ~IsSome(located[2].zip64)
    /\ output_base = 0
    /\ PrefixLen > EndOfCentralDirectoryRecordFixed_SIZE
    /\ base_offset = PrefixLen
    /\ Len(slice_records) = 2
    /\ Len(reader_records) = 2
    /\ slice_records[2].local_header_offset > PrefixLen

-----------------------------------------------------------------------------
(* The central directory iterators over directories that are cut short or  *)
(* followed by other bytes, and called again after they stopped            *)
(* (archive.rs).                                                           *)

\* what is done to a well-formed central directory: nothing, its last one
\* or two bytes cut off, or one or 46 zero bytes put behind it
Damages == {<<"none", 0>>, <<"cut", 1>>, <<"cut", 2>>, <<"junk", 1>>,
            <<"junk", ZipFileHeaderFixed_SIZE>>}

Damaged(cd, damage) ==
    IF damage[1] = "cut" THEN Slice(cd, 0, Max(0, Len(cd) - damage[2]))
    ELSE IF damage[1] = "junk" THEN cd \o Zeros(damage[2])
    ELSE cd

\* the bytes between offset() and end_position() of an archive, before the
\* end-of-central-directory signature; the iterators as
\* ZipSliceArchive::entries and ZipArchive::entries(buffer) make them.
\* beyond: the end-of-central-directory records name an offset() behind
\* end_position() (base_offset() is 0 then), the archive of C9, which only
\* the positioned-read archive iterates
InitDirectory ==
    /\ pc = "slice_entries"
    /\ \E lead \in 0..1, shapes \in SeqsUpTo(RecordShapes, MaxRecords), damage \in Damages,
          beyond \in BOOLEAN :
          LET cd == Damaged(CentralDirectoryBytes(shapes, 1), damage)
          IN  /\ data = Zeros(lead) \o cd \o END_OF_CENTRAL_DIR_SIGNAUTRE_BYTES
              /\ entry_data = IF beyond THEN <<>> ELSE cd
              /\ entries_offset = IF beyond THEN lead + Len(cd) + 1 ELSE lead
              /\ base_offset = IF beyond THEN 0 ELSE lead
              /\ central_dir_end_pos = lead + Len(cd)
              /\ buffer \in {Zeros(n) : n \in {ZipFileHeaderFixed_SIZE,
                                               ZipFileHeaderFixed_SIZE + 1,
                                               LongestRecord(shapes),
                                               Len(cd) + LongestRecord(shapes)}}
    /\ slice_records = <<>>
    /\ slice_result = NotYet
    /\ pos = 0
    /\ end = 0
    /\ reader_records = <<>>
    /\ reader_result = NotYet
    /\ ScanIdle
    /\ VerifyIdle
    /\ PathIdle
    /\ LocateIdle
    /\ GetEntryIdle
    /\ WriteIdle
    /\ ZipReaderIdle
    /\ LocateReaderIdle
    /\ TimeIdle
    /\ ModeIdle
    /\ CivilIdle
    /\ MutexIdle

\* ZipEntries::next_entry, called again after it returned None or an error
ReaderNextEntryAgain(short1, short2) ==
    /\ pc \in {"entries_done", "entries_again"}
    /\ pc' = "entries_again"
    /\ IF pos + ZipFileHeaderFixed_SIZE >= end /\ entries_offset >= central_dir_end_pos
       THEN /\ reader_result' = None
            /\ UNCHANGED <<buffer, pos, end, entries_offset, reader_records>>
       ELSE \E r \in {ReaderOutcome(short1, short2)} :
                /\ buffer' = r.buffer
                /\ pos' = r.pos
                /\ end' = r.end
                /\ entries_offset' = r.offset
                /\ IF r.error # None
                   THEN /\ reader_result' = r.error
                        /\ UNCHANGED reader_records
                   ELSE /\ reader_result' = Some(r.entry)
                        /\ reader_records' = Append(reader_records, r.entry)
    /\ UNCHANGED <<data, entry_data, slice_records, slice_result, base_offset, central_dir_end_pos>>
    /\ UNCHANGED notEntriesVars

NextDirectory ==
    \/ SliceNextEntry
    \/ \E short1 \in BOOLEAN, short2 \in BOOLEAN : ReaderNextEntry(short1, short2)
    \/ \E short1 \in BOOLEAN, short2 \in BOOLEAN : ReaderNextEntryAgain(short1, short2)

SpecDirectory == InitDirectory /\ [][NextDirectory]_vars

\* how a run of central directory bytes ends for one who parses record
\* after record
RECURSIVE DirectoryEnding(_)
DirectoryEnding(bytes) ==
    IF bytes = <<>> THEN "complete"
    ELSE LET header == ZipFileHeaderFixed_parse(bytes)
         IN  IF IsErr(header)
             THEN IF header[2] = Eof THEN "header cut" ELSE "wrong signature"
             ELSE IF Len(bytes) < ZipFileHeaderFixed_SIZE + variable_length(header[2])
             THEN "variable part cut"
             ELSE DirectoryEnding(SliceFrom(bytes, ZipFileHeaderFixed_SIZE
                                                       + variable_length(header[2])))

\* the central directory bytes of the archive, when offset() <= end_position()
DirectoryBytes == Slice(data, Min(base_offset, central_dir_end_pos), central_dir_end_pos)

\* C17: when the bytes at the slice iterator's position do not start with
\* the central directory header signature, next_entry returns Ok(None), not
\* an error.
C17_WrongSignatureEndsIteration ==
    (/\ pc \in {"reader_entries", "entries_done", "entries_again"}
     /\ Len(entry_data) >= ZipFileHeaderFixed_SIZE
     /\ Slice(entry_data, 0, 4) # CENTRAL_HEADER_SIGNATURE_BYTES)
        => slice_result = None

\* C18: when the variable-length part of a record cannot be filled because
\* the central directory ends first, and the buffer holds the whole
\* directory and more, the positioned-read iterator's next_entry fails with
\* Eof.
C18_CutRecordIsEof ==
    (/\ pc = "entries_done"
     /\ entries_offset <= central_dir_end_pos
     /\ DirectoryEnding(DirectoryBytes) = "variable part cut"
     /\ Len(buffer) > Len(DirectoryBytes) + ZipFileHeaderFixed_SIZE)
        => reader_result = Err(Eof)

\* the same for the slice iterator
C18_SliceCutRecordIsEof ==
    (/\ pc \in {"reader_entries", "entries_done", "entries_again"}
     /\ entries_offset <= central_dir_end_pos
     /\ DirectoryEnding(DirectoryBytes) = "variable part cut")
        => slice_result = Err(Eof)

\* the positioned-read iterator has nothing left to read or to parse
Exhausted == entries_offset >= central_dir_end_pos /\ pos = end

\* C19: in every state of the positioned-read iterator 0 <= pos <= end <=
\* buffer.len() and offset <= central_dir_end_pos, so that no read covers a
\* byte at or behind central_dir_end_pos; and a next_entry called once
\* offset has reached central_dir_end_pos and the buffered bytes are
\* consumed returns None.
C19_IteratorInRange ==
    /\ 0 <= pos
    /\ pos <= end
    /\ end <= Len(buffer)
    /\ entries_offset <= central_dir_end_pos
    /\ (pc = "entries_again" /\ Exhausted) => reader_result = None

\* the same without the bound on offset
C19_BufferInRange ==
    /\ 0 <= pos
    /\ pos <= end
    /\ end <= Len(buffer)

\* next_entry reads at offset and moves offset behind what it read: it
\* never moves offset behind central_dir_end_pos, and once offset is there
\* and the buffer is consumed it changes nothing and returns None
C19_ReadsInRange ==
    [][/\ entries_offset' >= entries_offset
       /\ entries_offset' > entries_offset => entries_offset' <= central_dir_end_pos
       /\ (Exhausted /\ pc \in {"reader_entries", "entries_done", "entries_again"}) =>
              /\ reader_result' = None
              /\ UNCHANGED <<buffer, pos, end, entries_offset>>]_vars

\* ---------------------------------------------------------------------------
\* An entry's modification time: written as an extended timestamp field,
\* read back by last_modified()
\* ---------------------------------------------------------------------------

\* Times keep their real widths here: a byte has 256 values and a timestamp
\* 32 bits. A count of seconds does not fit the checker's integers, so a u32
\* or a non-negative i64 is held as its two 16-bit halves [hi, lo], its value
\* being hi * 2^16 + lo, and 86400 is taken apart as 675 * 128.
OCTET == 256

HALF_WORD == 65536

SECONDS_PER_DAY == 86400

EXTENDED_TIMESTAMP_ID == 21589

UNIX_TIMESTAMP_ID == 22613

NTFS_TIMESTAMP_ID == 10

\* n.to_le_bytes() of a u16
octets_of_u16(n) == <<n % OCTET, n \div OCTET>>

\* le_u16 of two bytes
octets_le_u16(d) == d[1] + OCTET * d[2]

\* n.to_le_bytes() of a u32 held as halves
octets_of_u32(w) == octets_of_u16(w.lo) \o octets_of_u16(w.hi)

\* le_u32 of four bytes, as halves
octets_le_u32(d) == [hi |-> octets_le_u16(Slice(d, 2, 4)), lo |-> octets_le_u16(Slice(d, 0, 2))]

is_leap(year) == year % 4 = 0 /\ (year % 100 # 0 \/ year % 400 = 0)

last_day_of_month_common_year(mon) == <<31, 28, 31, 30, 31, 30, 31, 31, 30, 31, 30, 31>>[mon]

\* a calendar whose months all have 31 days
last_day_always_31(year, mon) == 31

last_day_of_month(year, mon) ==
    IF mon # 2 \/ ~is_leap(year) THEN last_day_of_month_common_year(mon) ELSE 29

\* ZipDateTime::from_components
from_components(year, mon, day, hour, minute, second, nanosecond) ==
    IF \/ year = 0
       \/ mon = 0
       \/ mon > 12
       \/ day = 0
       \/ hour > 23
       \/ minute > 59
       \/ second > 59
       \/ nanosecond > 999999999
    THEN None
    ELSE IF day > last_day_of_month(year, mon)
    THEN None
    ELSE Some([year |-> year, month |-> mon, day |-> day, hour |-> hour, minute |-> minute,
               second |-> second, nanosecond |-> nanosecond])

\* ZipDateTime::days_from_civil: days since 1970-01-01, negative before it.
\* Every division is of a non-negative number.
days_from_civil(t) ==
    LET y == IF t.month <= 2 THEN t.year - 1 ELSE t.year
        mm == IF t.month <= 2 THEN t.month + 9 ELSE t.month - 3
        era == y \div 400
        yoe == y - era * 400
        doy == ((153 * mm + 2) \div 5) + t.day - 1
        doe == yoe * 365 + (yoe \div 4) - (yoe \div 100) + doy
    IN  era * 146097 + doe - 719468

\* UtcDateTime::to_unix: days * 86400 + seconds, kept as its two terms
to_unix(t) ==
    [days |-> days_from_civil(t), seconds |-> t.hour * 3600 + t.minute * 60 + t.second]

\* the halves of days * 86400 + seconds for days >= 0
HalvesOf(days, seconds) ==
    LET q == days * 675
        low == (q % 512) * 128 + seconds
    IN  [hi |-> (q \div 512) + (low \div HALF_WORD), lo |-> low % HALF_WORD]

\* datetime.to_unix().max(0) as u32: a negative count becomes 0, and the
\* cast keeps the low 32 bits
unix_time_as_u32(t) ==
    LET u == to_unix(t)
    IN  IF u.days < 0
        THEN [hi |-> 0, lo |-> 0]
        ELSE LET w == HalvesOf(u.days, u.seconds) IN [hi |-> w.hi % HALF_WORD, lo |-> w.lo]

\* write_extended_timestamp_field: what it writes for Some(t) or None
write_extended_timestamp_field(datetime) ==
    IF ~IsSome(datetime)
    THEN <<>>
    ELSE octets_of_u16(EXTENDED_TIMESTAMP_ID) \o octets_of_u16(5) \o <<1>>
         \o octets_of_u32(unix_time_as_u32(datetime[2]))

\* extended_timestamp_extra_field_size
extended_timestamp_extra_field_size(datetime) == IF IsSome(datetime) THEN 9 ELSE 0

\* unix_timestamp_to_components of a non-negative timestamp given as halves
unix_timestamp_to_components(w) ==
    LET q == w.hi * 512 + (w.lo \div 128)
        total_days == q \div 675
        seconds_in_day == (q % 675) * 128 + (w.lo % 128)
        days_since_shifted_epoch == total_days + 719468
        era == days_since_shifted_epoch \div 146097
        days_of_era == days_since_shifted_epoch % 146097
        year_of_era == (days_of_era - (days_of_era \div 1460) + (days_of_era \div 36524)
                        - (days_of_era \div 146096)) \div 365
        year == era * 400 + year_of_era
        days_before_year == year_of_era * 365 + (year_of_era \div 4) - (year_of_era \div 100)
        day_of_year == days_of_era - days_before_year
        month_shifted == (5 * day_of_year + 2) \div 153
        day_of_month == day_of_year - ((153 * month_shifted + 2) \div 5) + 1
        final_year == IF month_shifted < 10 THEN year ELSE year + 1
        final_month == IF month_shifted < 10 THEN month_shifted + 3 ELSE month_shifted - 9
    IN  [year |-> final_year % HALF_WORD, month |-> final_month % OCTET,
         day |-> day_of_month % OCTET, hour |-> (seconds_in_day \div 3600) % OCTET,
         minute |-> ((seconds_in_day % 3600) \div 60) % OCTET,
         second |-> (seconds_in_day % 60) % OCTET]

\* UtcDateTime::from_unix
from_unix(w) ==
    LET c == unix_timestamp_to_components(w)
    IN  [year |-> c.year, month |-> c.month, day |-> c.day, hour |-> c.hour,
         minute |-> c.minute, second |-> c.second, nanosecond |-> 0]

\* parse_extended_timestamp
parse_extended_timestamp(d) ==
    IF Len(d) < 5
    THEN None
    ELSE IF d[1] % 2 # 0 /\ 1 + 4 <= Len(d)
    THEN Some(from_unix(octets_le_u32(Slice(d, 1, 5))))
    ELSE None

\* parse_unix_timestamp
parse_unix_timestamp(d) ==
    IF Len(d) < 8 THEN None ELSE Some(from_unix(octets_le_u32(Slice(d, 4, 8))))

\* parse_ntfs_timestamp; the time of an accepted field is kept as its eight
\* bytes of ticks
parse_ntfs_timestamp(d) ==
    IF Len(d) < 32
    THEN None
    ELSE IF octets_le_u16(Slice(d, 4, 6)) # 1
    THEN None
    ELSE IF octets_le_u16(Slice(d, 6, 8)) < 24 \/ Len(d) < 8 + octets_le_u16(Slice(d, 6, 8))
    THEN None
    ELSE Some([ticks |-> Slice(d, 8, 16)])

\* the loop of extract_best_timestamp from position at with last_timestamp
RECURSIVE BestTimestampFrom(_, _, _)
BestTimestampFrom(extra, at, last_timestamp) ==
    IF at + 4 > Len(extra)
    THEN last_timestamp
    ELSE LET field_id == octets_le_u16(Slice(extra, at, at + 2))
             field_size == octets_le_u16(Slice(extra, at + 2, at + 4))
             field_at == at + 4
         IN  IF field_at + field_size > Len(extra)
             THEN last_timestamp
             ELSE LET field_data == Slice(extra, field_at, field_at + field_size)
                      parsed == CASE field_id = NTFS_TIMESTAMP_ID -> parse_ntfs_timestamp(field_data)
                                  [] field_id = EXTENDED_TIMESTAMP_ID -> parse_extended_timestamp(field_data)
                                  [] field_id = UNIX_TIMESTAMP_ID -> parse_unix_timestamp(field_data)
                                  [] OTHER -> None
                  IN  BestTimestampFrom(extra, field_at + field_size,
                                        IF IsSome(parsed) THEN Some(<<"Utc", parsed[2]>>)
                                        ELSE last_timestamp)

\* extract_best_timestamp: the last timestamp field wins, the MS-DOS time and
\* date (kept as the two fields) are the fallback
extract_best_timestamp(extra, dos_time, dos_date) ==
    LET last_timestamp == BestTimestampFrom(extra, 0, None)
    IN  IF IsSome(last_timestamp) THEN last_timestamp[2] ELSE <<"Local", dos_time, dos_date>>

\* the components the modification times are made of
TimeYears == {0, 1, 1969, 1970, 2000, 2038, 2100, 2106, 2107, 2242}

TimeMonths == {1, 2, 3, 12}

TimeDays == {1, 7, 28, 29, 31}

TimeHours == {0, 6, 23}

TimeMinutes == {0, 28, 59}

TimeSeconds == {0, 15, 16, 59}

TimeNanoseconds == {0, 1}

\* every UtcDateTime from_components makes of them, and no time at all
ModificationTimes ==
    {None} \cup
    {r \in {from_components(y, mo, dd, h, mi, sec, ns) :
                y \in TimeYears, mo \in TimeMonths, dd \in TimeDays, h \in TimeHours,
                mi \in TimeMinutes, sec \in TimeSeconds, ns \in TimeNanoseconds} : IsSome(r)}

\* what write_zip64_extra_field puts before the timestamp field in a central
\* directory record: nothing, or the field 0x0001 with one 8-byte value
Zip64FieldsBefore == {<<>>, octets_of_u16(1) \o octets_of_u16(8) \o <<85, 84, 5, 0, 1, 0, 0, 0>>}

TimeIdleOthers ==
    /\ ScanIdle
    /\ VerifyIdle
    /\ EntriesIdle
    /\ PathIdle
    /\ LocateIdle
    /\ GetEntryIdle
    /\ WriteIdle
    /\ ZipReaderIdle
    /\ LocateReaderIdle

InitTime ==
    /\ pc = "time_start"
    /\ data = <<>>
    /\ buffer = <<>>
    /\ modification_time \in ModificationTimes
    /\ timestamp_field = <<>>
    /\ last_modified = NotYet
    /\ TimeIdleOthers
    /\ ModeIdle
    /\ CivilIdle
    /\ MutexIdle

\* ZipArchiveWriter::finish writing the extra field of the entry's central
\* directory record
WriteExtraField(zip64_field) ==
    /\ pc = "time_start"
    /\ timestamp_field' = zip64_field \o write_extended_timestamp_field(modification_time)
    /\ pc' = "time_written"
    /\ UNCHANGED <<data, buffer, modification_time, last_modified, notTimeVars>>

\* ZipFileHeaderRecord::last_modified of the record read back
LastModified(dos_time, dos_date) ==
    /\ pc = "time_written"
    /\ last_modified' = extract_best_timestamp(timestamp_field, dos_time, dos_date)
    /\ pc' = "time_read"
    /\ UNCHANGED <<data, buffer, modification_time, timestamp_field, notTimeVars>>

NextTime ==
    \/ \E zip64_field \in Zip64FieldsBefore : WriteExtraField(zip64_field)
    \/ \E dos_time \in {0} : \E dos_date \in {33} : LastModified(dos_time, dos_date)

SpecTime == InitTime /\ [][NextTime]_vars

\* t to the second
ToTheSecond(t) ==
    [year |-> t.year, month |-> t.month, day |-> t.day, hour |-> t.hour, minute |-> t.minute,
     second |-> t.second]

\* to_unix(t) fits a u32
InU32Range(t) ==
    /\ to_unix(t).days >= 0
    /\ HalvesOf(to_unix(t).days, to_unix(t).seconds).hi < HALF_WORD

\* C20: for any UTC timestamp t given as an entry's modification time, the
\* record read back reports last_modified() equal to t in UTC, exact to the
\* second
C20_TimestampRoundTrip ==
    (pc = "time_read" /\ IsSome(modification_time)) =>
        /\ last_modified[1] = "Utc"
        /\ ToTheSecond(last_modified[2]) = ToTheSecond(modification_time[2])

\* C20, the part that holds: a time from 1970-01-01T00:00:00 to
\* 2106-02-07T06:28:15 is read back exact to the second
C20_RoundTripInU32Range ==
    (pc = "time_read" /\ IsSome(modification_time) /\ InU32Range(modification_time[2])) =>
        /\ last_modified[1] = "Utc"
        /\ ToTheSecond(last_modified[2]) = ToTheSecond(modification_time[2])

\* C20: a time before 1970 is read back as 1970-01-01T00:00:00
C20_BeforeEpochReadsEpoch ==
    (pc = "time_read" /\ IsSome(modification_time) /\ to_unix(modification_time[2]).days < 0) =>
        last_modified = <<"Utc", [year |-> 1970, month |-> 1, day |-> 1, hour |-> 0, minute |-> 0,
                                  second |-> 0, nanosecond |-> 0]>>

\* C20: without a modification time the MS-DOS fields are reported
C20_NoTimeReadsDos ==
    (pc = "time_read" /\ ~IsSome(modification_time)) => last_modified[1] = "Local"

C20_InRangeReached ==
    /\ pc = "time_read"
    /\ IsSome(modification_time)
    /\ InU32Range(modification_time[2])
    /\ modification_time[2].year = 2106
    /\ Len(timestamp_field) > 9

-----------------------------------------------------------------------------
(* The writer over a sink that runs out of room (writer.rs).  A write_all  *)
(* the sink cuts short leaves the bytes it took in the sink and returns    *)
(* an error through `?`; an entry writer can be dropped, there is no Drop  *)
(* implementation.                                                         *)

\* how many bytes the sink holds at the start and after it has grown: cuts
\* inside and at the end of a local header, a data descriptor and the
\* directory
SinkRooms == {10, 31, 40, 100, NoLimit}

InitSink ==
    /\ InitWriter
    /\ files = <<>>
    /\ count = 0
    /\ sink_room \in SinkRooms

\* the ZipEntryWriter and its ZipDataWriter go out of scope without finish
EntryDrop ==
    /\ pc = "writing"
    /\ entry_writer # None
    /\ entry_writer' = None
    /\ data_writer' = NoDataWriter
    /\ UNCHANGED <<pc, files, count, output, output_base, written, write_result,
                   central_directory_offset, central_directory_end, sink_room>>
    /\ UNCHANGED notWriteVars

\* the sink gets more room: it now holds up to capacity bytes, or any number
SinkGrows(capacity) ==
    /\ pc = "writing"
    /\ sink_room # NoLimit
    /\ capacity = NoLimit \/ capacity > count + sink_room
    /\ sink_room' = IF capacity = NoLimit THEN NoLimit ELSE capacity - count
    /\ UNCHANGED <<pc, files, count, output, output_base, entry_writer, data_writer, written,
                   write_result, central_directory_offset, central_directory_end>>
    /\ UNCHANGED notWriteVars

NextSink ==
    \/ \E n \in DirNames : NewDir(n, MaxRecords)
    \/ NewFile(<<CHAR_A>>, MaxRecords)
    \/ DataWrite(<<1>>)
    \/ EntryFinish
    \/ EntryDrop
    \/ \E capacity \in SinkRooms : SinkGrows(capacity)
    \/ Finish

SpecSink == InitSink /\ [][NextSink]_vars

\* a completing call: new_dir(..).create() or ZipEntryWriter::finish
CompletingCall == (\E n \in DirNames : NewDir(n, MaxRecords)) \/ EntryFinish

\* one step of the writer: a completing call that returns Ok appends one
\* record, any other step leaves the records alone, and the bytes written
\* so far stay
RecordedIffCompleted ==
    /\ (CompletingCall /\ IsOk(write_result')) =>
           /\ Len(files') = Len(files) + 1
           /\ SubSeq(files', 1, Len(files)) = files
    /\ ~(CompletingCall /\ IsOk(write_result')) => files' = files
    /\ count' >= count
    /\ Len(output') >= Len(output)
    /\ SubSeq(output', 1, Len(output)) = output

\* what finish wrote holds as many records as there are completed entries,
\* and says so
CountIsRecords ==
    pc = "finished" =>
        /\ ReadRecords(WrittenCentralDirectory, Len(files)).next
               = central_directory_end - central_directory_offset
        /\ EndOfCentralDirectoryRecordFixed_parse(WrittenEndRecords)[2].num_entries = Len(files)

\* C21: a central directory record is recorded for an entry exactly when
\* its completing call (new_dir create, ZipEntryWriter::finish) returns Ok;
\* a dropped entry writer and an entry whose local header or data
\* descriptor the sink cut short add no record; no call takes back bytes
\* already written; and the entry count finish writes is the number of
\* records, which is the number of completing calls that returned Ok
C21_RecordIffCompleted == [][RecordedIffCompleted]_vars /\ []CountIsRecords

\* a file whose data descriptor the sink cut short, then an entry that was
\* completed, in a finished archive
C21_Witness ==
    /\ pc = "finished"
    /\ Len(written) = 2
    /\ Len(files) = 1
    /\ written[1][2] = <<>>
    /\ files[1].local_header_offset > Len(write_local_header(<<CHAR_A>>, FLAG_DATA_DESCRIPTOR))
    /\ files[1].local_header_offset < Len(write_local_header(<<CHAR_A>>, FLAG_DATA_DESCRIPTOR))
                                          + 2 * DataDescriptor_SIZE

-----------------------------------------------------------------------------
(* The order of the entries (writer.rs, archive.rs): directories and files *)
(* are written, some entry writers are dropped, and the finished archive   *)
(* is read by both iterators.                                              *)

NextOrder ==
    \/ \E n \in DirNames : NewDir(n, MaxRecords)
    \/ \E n \in FileNames : NewFile(n, MaxRecords)
    \/ DataWrite(<<1>>)
    \/ EntryFinish
    \/ EntryDrop
    \/ Finish
    \/ OpenArchive
    \/ SliceNextEntry
    \/ \E short1 \in BOOLEAN, short2 \in BOOLEAN : ReaderNextEntry(short1, short2)

SpecOrder == InitRoundTrip /\ [][NextOrder]_vars

\* one step of the writer: an entry writer remembers the byte count at
\* which it was started, and a completed entry is recorded behind the
\* entries completed before it, under its name, with the byte count at
\* which it was started
RecordedInOrder ==
    /\ (entry_writer = None /\ entry_writer' # None) =>
           entry_writer'[2].local_header_offset = count
    /\ (files' # files) =>
           /\ Len(files') = Len(files) + 1
           /\ SubSeq(files', 1, Len(files)) = files
           /\ IF entry_writer # None
              THEN /\ EntryFinish
                   /\ files'[Len(files')].name = entry_writer[2].name
                   /\ files'[Len(files')].local_header_offset
                          = entry_writer[2].local_header_offset
              ELSE /\ \E n \in DirNames : NewDir(n, MaxRecords)
                                           /\ files'[Len(files')].name = from_str(n)
                   /\ files'[Len(files')].local_header_offset = count

\* the k-th record read is the k-th entry completed: its name and its local
\* header offset, and the local header of that name is written there
IsEntry(r, k) ==
    /\ k <= Len(files)
    /\ r.file_name = files[k].name
    /\ r.local_header_offset = files[k].local_header_offset
    /\ \E at \in {r.local_header_offset - output_base} :
          /\ Slice(output, at, at + 4) = LOCAL_FILE_HEADER_SIGNATURE_BYTES
          /\ Slice(output, at + ZipLocalFileHeaderFixed_SIZE,
                   at + ZipLocalFileHeaderFixed_SIZE + Len(r.file_name)) = r.file_name
    /\ k > 1 => files[k - 1].local_header_offset < r.local_header_offset

\* the central directory finish wrote holds the completed entries in their
\* order, and each iterator returns them in that order
ReadInOrder ==
    pc \notin {"writing", "finish_failed"} =>
        /\ \A parsed \in {ReadRecords(WrittenCentralDirectory, Len(files))} :
               /\ parsed.next = central_directory_end - central_directory_offset
               /\ \A k \in 1..Len(files) :
                      /\ parsed.records[k] # None
                      /\ IsEntry(parsed.records[k][2].entry, k)
        /\ \A k \in 1..Len(slice_records) : IsEntry(slice_records[k], k)
        /\ \A k \in 1..Len(reader_records) : IsEntry(reader_records[k], k)

\* C22: the writer emits the central directory records in the order in which
\* the entries were completed (directory creation, file finish), each with
\* the local header offset that was the writer's byte count when the entry
\* was started, and both iterators return entries in that order
C22_CompletionOrder == [][RecordedInOrder]_vars /\ []ReadInOrder

\* a directory and a file that was finished, read back by both iterators
C22_Witness ==
    /\ pc = "entries_done"
    /\ Len(files) = 2
    /\ is_dir(files[1].name)
    /\ files[2].compressed_size > 0
    /\ Len(slice_records) = 2
    /\ Len(reader_records) = 2

-----------------------------------------------------------------------------
(* Names the writer refuses (writer.rs 281-319, 351-383): names around the *)
(* longest a header can hold, and names that are no directory names.       *)

Repeated(byte, n) == [i \in 1..n |-> byte]

\* names given to new_file and new_dir: short ones, and ones of u16::MAX - 1
\* to u16::MAX + 2 bytes, of which some become shorter when normalized
WriterNames ==
    {<<CHAR_A>>, <<CHAR_A, CHAR_SLASH>>, <<CHAR_A, CHAR_BACKSLASH>>, <<CHAR_SLASH>>,
     Repeated(CHAR_A, U16_MAX), Repeated(CHAR_A, U16_MAX + 1),
     Repeated(CHAR_A, U16_MAX - 1) \o <<CHAR_SLASH>>, Repeated(CHAR_A, U16_MAX) \o <<CHAR_SLASH>>,
     <<CHAR_A>> \o Repeated(CHAR_SLASH, U16_MAX), <<CHAR_A>> \o Repeated(CHAR_SLASH, U16_MAX + 1)}

NextNames ==
    \/ \E n \in WriterNames : NewDir(n, MaxRecords)
    \/ \E n \in WriterNames : NewFile(n, MaxRecords)
    \/ EntryFinish
    \/ Finish

SpecNames == InitRoundTrip /\ [][NextNames]_vars

\* the call failed with InvalidInput, wrote nothing and recorded nothing;
\* the writer is as it was before the call but for what the call returned
RefusedUnchanged ==
    /\ IsErr(write_result')
    /\ write_result'[2][1] = "InvalidInput"
    /\ UNCHANGED <<pc, files, count, output, output_base, entry_writer, data_writer, written,
                   central_directory_offset, central_directory_end, sink_room>>

\* C23: new_file and new_dir fail with InvalidInput when the entry name is
\* longer than 65535 bytes, and new_dir fails with InvalidInput when the name
\* does not end with `/`; in each of these failures no byte is written, the
\* byte count is unchanged and no entry is recorded
C23_LongNameRefused ==
    [][\A n \in WriterNames :
           /\ (NewFile(n, MaxRecords) /\ Len(n) > U16_MAX) => RefusedUnchanged
           /\ (NewDir(n, MaxRecords) /\ (Len(n) > U16_MAX \/ n[Len(n)] # CHAR_SLASH)) =>
                  RefusedUnchanged]_vars

\* C23 as the code has it: new_file fails with InvalidInput when the name
\* without its trailing slashes, normalized, is longer than 65535 bytes;
\* new_dir fails with InvalidInput when the normalized name is longer than
\* 65535 bytes or does not end with `/`; each failure leaves the writer as
\* it was; and every other name is accepted
C23_LongNormalizedNameRefused ==
    [][\A n \in WriterNames :
           /\ NewFile(n, MaxRecords) =>
                  IF Len(from_str(trim_end_slashes(n))) > U16_MAX
                  THEN RefusedUnchanged
                  ELSE IsOk(write_result')
           /\ NewDir(n, MaxRecords) =>
                  IF \/ Len(from_str(n)) > U16_MAX
                     \/ from_str(n) = <<>>
                     \/ from_str(n)[Len(from_str(n))] # CHAR_SLASH
                  THEN RefusedUnchanged
                  ELSE IsOk(write_result')]_vars

\* a name that is too long was refused by a writer that holds an entry, and
\* the writer is ready for the next
C23_Witness ==
    /\ pc = "writing"
    /\ write_result = Err(InvalidInput("file name too long"))
    /\ Len(files) = 1
    /\ entry_writer = None
    /\ ENABLED NewFile(<<CHAR_A>>, MaxRecords)

-----------------------------------------------------------------------------
(* Unix permissions (writer.rs 406-465, archive.rs 1511-1535, mode.rs):    *)
(* finish writes them into a central directory record, mode() reads them   *)
(* back.  Values keep their real widths, a u32 is held as two halves.      *)

CREATOR_UNIX == 3

S_IFMT == 61440

S_IFSOCK == 49152

S_IFLNK == 40960

S_IFREG == 32768

S_IFBLK == 24576

S_IFDIR == 16384

S_IFCHR == 8192

S_IFIFO == 4096

S_ISUID == 2048

S_ISGID == 1024

S_ISVTX == 512

MSDOS_DIR == 16

MSDOS_READONLY == 1

\* a & b and a | b of non-negative integers
RECURSIVE bit_and(_, _)
bit_and(a, b) ==
    IF a = 0 \/ b = 0 THEN 0 ELSE (a % 2) * (b % 2) + 2 * bit_and(a \div 2, b \div 2)

bit_or(a, b) == a + b - bit_and(a, b)

\* unix_mode_to_file_mode
unix_mode_to_file_mode(mm) ==
    LET kind == bit_and(mm, S_IFMT)
        basic == bit_and(mm, 511)
        typed == bit_or(basic, IF kind \in {S_IFBLK, S_IFCHR, S_IFDIR, S_IFIFO, S_IFLNK, S_IFSOCK}
                               THEN kind ELSE S_IFREG)
        with_gid == IF bit_and(mm, S_ISGID) # 0 THEN bit_or(typed, S_ISGID) ELSE typed
        with_uid == IF bit_and(mm, S_ISUID) # 0 THEN bit_or(with_gid, S_ISUID) ELSE with_gid
    IN  IF bit_and(mm, S_ISVTX) # 0 THEN bit_or(with_uid, S_ISVTX) ELSE with_uid

\* msdos_mode_to_file_mode of external attributes given as halves
msdos_mode_to_file_mode(w) ==
    IF bit_and(w.lo, MSDOS_DIR) # 0 THEN bit_or(S_IFDIR, 511)
    ELSE IF bit_and(w.lo, MSDOS_READONLY) # 0 THEN bit_or(S_IFREG, 292)
    ELSE bit_or(S_IFREG, 438)

\* ZipArchiveWriter::finish: the version made by and the external file
\* attributes of a record, as their bytes; x << 16 keeps the low half of x
write_attributes(permissions, version_needed) ==
    octets_of_u16(bit_or((IF IsSome(permissions) THEN CREATOR_UNIX ELSE 0) * OCTET, version_needed))
        \o octets_of_u32(IF IsSome(permissions)
                         THEN [hi |-> permissions[2] % HALF_WORD, lo |-> 0]
                         ELSE [hi |-> 0, lo |-> 0])

\* ZipFilePath::is_dir of the raw name of a record
raw_is_dir(file_name) == file_name # <<>> /\ file_name[Len(file_name)] = CHAR_SLASH

\* ZipFileHeaderRecord::mode
mode(version_made_by, external_file_attrs, file_name) ==
    LET creator_version == version_made_by \div OCTET
        from_attrs == CASE creator_version \in {3, 19} ->
                               unix_mode_to_file_mode(external_file_attrs.hi)
                        [] creator_version \in {11, 14, 0} ->
                               msdos_mode_to_file_mode(external_file_attrs)
                        [] OTHER -> 420
    IN  IF raw_is_dir(file_name) THEN bit_or(from_attrs, S_IFDIR) ELSE from_attrs

\* the permissions given: file types known and unknown, permission bits,
\* special bits, bits above the sixteenth, and none
Permissions ==
    {None} \cup
    {Some(kind + special + basic + high) :
        kind \in {0, S_IFIFO, S_IFCHR, S_IFDIR, S_IFBLK, S_IFREG, S_IFLNK, S_IFSOCK, S_IFREG + S_IFIFO},
        special \in {0, S_ISUID, S_ISVTX}, basic \in {0, 420, 493, 511}, high \in {0, HALF_WORD}}

InitMode ==
    /\ pc = "mode_start"
    /\ data = <<>>
    /\ buffer = <<>>
    /\ unix_permissions \in Permissions
    /\ entry_name \in {<<CHAR_A>>, <<CHAR_A, CHAR_SLASH>>}
    /\ central_attrs = <<>>
    /\ entry_mode = NotYet
    /\ TimeIdleOthers
    /\ TimeIdle
    /\ CivilIdle
    /\ MutexIdle

\* ZipArchiveWriter::finish writing the record of the entry
WriteAttributes(version_needed) ==
    /\ pc = "mode_start"
    /\ central_attrs' = write_attributes(unix_permissions, version_needed)
    /\ pc' = "mode_written"
    /\ UNCHANGED <<data, buffer, unix_permissions, entry_name, entry_mode, notModeVars>>

\* ZipFileHeaderRecord::mode of the record read back
Mode ==
    /\ pc = "mode_written"
    /\ entry_mode' = mode(octets_le_u16(Slice(central_attrs, 0, 2)),
                          octets_le_u32(Slice(central_attrs, 2, 6)), entry_name)
    /\ pc' = "mode_read"
    /\ UNCHANGED <<data, buffer, unix_permissions, entry_name, central_attrs, notModeVars>>

NextMode ==
    \/ \E version_needed \in {20, ZIP64_VERSION_NEEDED} : WriteAttributes(version_needed)
    \/ Mode

SpecMode == InitMode /\ [][NextMode]_vars

\* the file type encoded in p, a regular file when p carries no type bits
TypeIn(p) == IF bit_and(p, S_IFMT) = 0 THEN S_IFREG ELSE bit_and(p, S_IFMT)

\* C24: for an entry written with unix_permissions(p), mode() read back has
\* the permission bits p & 0o777 and the file type encoded in p (regular
\* file when p carries no type bits); a directory entry (name ending in
\* `/`) reads back with file type directory, mode & 0o170000 = 0o040000
C24_ModeRoundTrip ==
    (pc = "mode_read" /\ IsSome(unix_permissions)) =>
        /\ bit_and(entry_mode, 511) = bit_and(unix_permissions[2], 511)
        /\ IF raw_is_dir(entry_name)
           THEN bit_and(entry_mode, S_IFMT) = S_IFDIR
           ELSE bit_and(entry_mode, S_IFMT) = TypeIn(unix_permissions[2])

\* C24, the part that holds: the permission bits are read back, and a file
\* given no type bits or one of the seven file types reads back as a regular
\* file or as that type
C24_FileModeRoundTrip ==
    (pc = "mode_read" /\ IsSome(unix_permissions)) =>
        /\ bit_and(entry_mode, 511) = bit_and(unix_permissions[2], 511)
        /\ (/\ ~raw_is_dir(entry_name)
            /\ bit_and(unix_permissions[2], S_IFMT)
                   \in {0, S_IFIFO, S_IFCHR, S_IFDIR, S_IFBLK, S_IFREG, S_IFLNK, S_IFSOCK}) =>
               bit_and(entry_mode, S_IFMT) = TypeIn(unix_permissions[2])

\* C24: a directory given permissions reads back as a directory only when
\* the permissions carry S_IFDIR themselves
C24_DirectoryNeedsTypeBits ==
    (pc = "mode_read" /\ IsSome(unix_permissions) /\ raw_is_dir(entry_name)) =>
        (bit_and(entry_mode, S_IFMT) = S_IFDIR
             <=> bit_and(unix_permissions[2], S_IFMT) = S_IFDIR)

-----------------------------------------------------------------------------
(* MS-DOS time and date (time.rs 475-521): the accessors of DosDateTime    *)
(* over every 16-bit time and every 16-bit date.                           *)

\* x.clamp(low, high)
clamp(x, low, high) == IF x < low THEN low ELSE IF x > high THEN high ELSE x

\* DosDateTime::year, month, day, hour, minute, second of (time, date);
\* `as u8` keeps the low eight bits
DosDateTime(dos_time, dos_date) ==
    LET dos_year == ((dos_date \div 512) % 128) + 1980
        dos_month == clamp(((dos_date \div 32) % 16) % OCTET, 1, 12)
    IN  [year |-> dos_year,
         month |-> dos_month,
         day |-> clamp((dos_date % 32) % OCTET, 1, last_day_of_month(dos_year, dos_month)),
         hour |-> Min(((dos_time \div 2048) % 32) % OCTET, 23),
         minute |-> Min(((dos_time \div 32) % 64) % OCTET, 59),
         second |-> Min(((dos_time % 32) * 2) % OCTET, 58)]

\* the pairs decoded: every time with the least and the greatest date, every
\* date with the least and the greatest time
InitDos ==
    /\ pc = "dos_start"
    /\ data = <<>>
    /\ buffer = <<>>
    /\ \/ dos_fields \in (0 .. HALF_WORD - 1) \X {0, HALF_WORD - 1}
       \/ dos_fields \in {0, HALF_WORD - 1} \X (0 .. HALF_WORD - 1)
    /\ unix_seconds = NotYet
    /\ civil_time = NotYet
    /\ seconds_back = NotYet
    /\ TimeIdleOthers
    /\ TimeIdle
    /\ ModeIdle
    /\ MutexIdle

\* the accessors of the DosDateTime of a record
DosComponents ==
    /\ pc = "dos_start"
    /\ civil_time' = DosDateTime(dos_fields[1], dos_fields[2])
    /\ pc' = "dos_decoded"
    /\ UNCHANGED <<dos_fields, unix_seconds, seconds_back, notCivilVars>>

NextDos == DosComponents

SpecDos == InitDos /\ [][NextDos]_vars

\* the days of a month of the Gregorian calendar
DaysIn(y, mo) ==
    CASE mo \in {4, 6, 9, 11} -> 30
      [] mo = 2 -> IF y % 400 = 0 \/ (y % 4 = 0 /\ y % 100 # 0) THEN 29 ELSE 28
      [] OTHER -> 31

\* C25: every 16-bit MS-DOS time and date decodes to a valid calendar date
\* and time: year 1980..2107, month 1..12, day 1..last day of that month in
\* that year, hour <= 23, minute <= 59, an even second <= 58; the all-zero
\* pair decodes to 1980-01-01T00:00:00
C25_DosDecodesValid ==
    pc = "dos_decoded" =>
        /\ civil_time.year \in 1980 .. 2107
        /\ civil_time.month \in 1 .. 12
        /\ civil_time.day \in 1 .. DaysIn(civil_time.year, civil_time.month)
        /\ civil_time.hour \in 0 .. 23
        /\ civil_time.minute \in 0 .. 59
        /\ civil_time.second \in 0 .. 58
        /\ civil_time.second % 2 = 0
        /\ dos_fields = <<0, 0>> =>
               civil_time = [year |-> 1980, month |-> 1, day |-> 1, hour |-> 0, minute |-> 0,
                             second |-> 0]

\* a date of 31 February 2000 has been decoded, as 29 February 2000
C25_Witness ==
    /\ pc = "dos_decoded"
    /\ dos_fields[2] = (20 * 512) + (2 * 32) + 31
    /\ civil_time.year = 2000
    /\ civil_time.month = 2
    /\ civil_time.day = 29

-----------------------------------------------------------------------------
(* Unix timestamps (time.rs 399-444, 671-729): from_unix and to_unix over  *)
(* signed counts of seconds.                                               *)

\* a / b and a % b of Rust for b > 0: the quotient is rounded towards zero
quot(a, b) == IF a >= 0 THEN a \div b ELSE 0 - ((0 - a) \div b)

rem(a, b) == a - (b * quot(a, b))

\* unix_timestamp_to_components of an i64
unix_timestamp_to_components_i64(stamp) ==
    LET total_days == quot(stamp, SECONDS_PER_DAY)
        rest == rem(stamp, SECONDS_PER_DAY)
        seconds_in_day == IF rest < 0 THEN rest + SECONDS_PER_DAY ELSE rest
        days_since_shifted_epoch == total_days + 719468
        era == quot(days_since_shifted_epoch, 146097)
        days_of_era == rem(days_since_shifted_epoch, 146097)
        year_of_era == quot(days_of_era - quot(days_of_era, 1460) + quot(days_of_era, 36524)
                            - quot(days_of_era, 146096), 365)
        year == (era * 400) + year_of_era
        days_before_year == (year_of_era * 365) + quot(year_of_era, 4) - quot(year_of_era, 100)
        day_of_year == days_of_era - days_before_year
        month_shifted == quot((5 * day_of_year) + 2, 153)
        day_of_month == day_of_year - quot((153 * month_shifted) + 2, 5) + 1
        final_year == IF month_shifted < 10 THEN year ELSE year + 1
        final_month == IF month_shifted < 10 THEN month_shifted + 3 ELSE month_shifted - 9
    IN  [year |-> final_year % HALF_WORD, month |-> final_month % OCTET,
         day |-> day_of_month % OCTET, hour |-> quot(seconds_in_day, 3600) % OCTET,
         minute |-> quot(rem(seconds_in_day, 3600), 60) % OCTET,
         second |-> rem(seconds_in_day, 60) % OCTET]

\* UtcDateTime::from_unix of an i64
from_unix_i64(stamp) ==
    LET c == unix_timestamp_to_components_i64(stamp)
    IN  [year |-> c.year, month |-> c.month, day |-> c.day, hour |-> c.hour,
         minute |-> c.minute, second |-> c.second, nanosecond |-> 0]

\* the timestamps: around the epoch, around the ends of days, months and
\* leap years before and after it, and the ends of the i32 range
UnixSeconds ==
    {(days * SECONDS_PER_DAY) + seconds :
        days \in {-24855, -24047, -24046, -366, -365, -2, -1, 0, 1, 58, 59, 365,
                  10956, 11016, 11017, 24854},
        seconds \in {-1, 0, 1, 3599, 43200, 86399}}

InitUnix ==
    /\ pc = "unix_start"
    /\ data = <<>>
    /\ buffer = <<>>
    /\ dos_fields = NotYet
    /\ unix_seconds \in UnixSeconds
    /\ civil_time = NotYet
    /\ seconds_back = NotYet
    /\ TimeIdleOthers
    /\ TimeIdle
    /\ ModeIdle
    /\ MutexIdle

\* UtcDateTime::from_unix
FromUnix ==
    /\ pc = "unix_start"
    /\ civil_time' = from_unix_i64(unix_seconds)
    /\ pc' = "unix_civil"
    /\ UNCHANGED <<dos_fields, unix_seconds, seconds_back, notCivilVars>>

\* UtcDateTime::to_unix
ToUnix ==
    /\ pc = "unix_civil"
    /\ seconds_back' = (to_unix(civil_time).days * SECONDS_PER_DAY) + to_unix(civil_time).seconds
    /\ pc' = "unix_back"
    /\ UNCHANGED <<dos_fields, unix_seconds, civil_time, notCivilVars>>

NextUnix ==
    \/ FromUnix
    \/ ToUnix

SpecUnix == InitUnix /\ [][NextUnix]_vars

\* the date of the day that many days after 1970-01-01, counted month by
\* month from the first of a year
RECURSIVE DateInYear(_, _, _)
DateInYear(y, mo, days) ==
    IF days < DaysIn(y, mo) THEN [year |-> y, month |-> mo, day |-> days + 1]
    ELSE DateInYear(y, mo + 1, days - DaysIn(y, mo))

DaysOfYear(y) == IF DaysIn(y, 2) = 29 THEN 366 ELSE 365

RECURSIVE DateAfter(_, _)
DateAfter(y, days) ==
    IF days < 0 THEN DateAfter(y - 1, days + DaysOfYear(y - 1))
    ELSE IF days >= DaysOfYear(y) THEN DateAfter(y + 1, days - DaysOfYear(y))
    ELSE DateInYear(y, 1, days)

\* the proleptic Gregorian date and time of a timestamp
GregorianOf(stamp) ==
    LET days == stamp \div SECONDS_PER_DAY
        seconds == stamp % SECONDS_PER_DAY
        date == DateAfter(1970, days)
    IN  [year |-> date.year, month |-> date.month, day |-> date.day,
         hour |-> seconds \div 3600, minute |-> (seconds % 3600) \div 60,
         second |-> seconds % 60, nanosecond |-> 0]

\* C26: to_unix(from_unix(s)) = s for every s whose year is representable,
\* negative s that are not a whole number of days included, and
\* from_unix(s) is the proleptic Gregorian date and time of s
C26_UnixRoundTrip ==
    /\ pc \in {"unix_civil", "unix_back"} => civil_time = GregorianOf(unix_seconds)
    /\ pc = "unix_back" => seconds_back = unix_seconds

\* C26, the part that holds: the round trip and the date are right for
\* every s >= 0 and every negative s that is a whole number of days
C26_RoundTripWholeDays ==
    /\ (pc \in {"unix_civil", "unix_back"}
            /\ (unix_seconds >= 0 \/ unix_seconds % SECONDS_PER_DAY = 0)) =>
           civil_time = GregorianOf(unix_seconds)
    /\ (pc = "unix_back" /\ (unix_seconds >= 0 \/ unix_seconds % SECONDS_PER_DAY = 0)) =>
           seconds_back = unix_seconds

\* C26: a negative s that is not a whole number of days comes back one day
\* later
C26_NegativeOneDayLate ==
    (pc = "unix_back" /\ unix_seconds < 0 /\ unix_seconds % SECONDS_PER_DAY # 0) =>
        /\ seconds_back = unix_seconds + SECONDS_PER_DAY
        /\ civil_time = GregorianOf(unix_seconds + SECONDS_PER_DAY)

-----------------------------------------------------------------------------
(* MutexReader (reader_at.rs 155-187): threads share one reader over a     *)
(* stream that can seek and read, and call read_at on it.  Each statement  *)
(* of read_at is a step of its thread; stream_position, seek and read of   *)
(* the stream may fail.                                                    *)

MaxThreads == 2

Threads == 1 .. MaxThreads

\* the bytes of the stream
StreamBytes == <<7, 8, 9>>

\* the offsets and the buffer lengths of the calls
ReadOffsets == {0, 2}

BufLens == {2}

\* lock() of a mutex that is free of every owner
lock_unguarded(owner) == TRUE

\* Mutex::lock returns when no thread holds the mutex
lock(owner) == owner = None

NoCall ==
    [at |-> "idle", offset |-> 0, buf_len |-> 0, original_position |-> 0, result |-> NotYet,
     before |-> 0, after |-> 0, failed |-> "none"]

InitMutex ==
    /\ pc = "threads"
    /\ data = StreamBytes
    /\ buffer = <<>>
    /\ stream_position \in 0 .. Len(StreamBytes)
    /\ mutex_owner = None
    /\ read_calls = [t \in Threads |-> NoCall]
    /\ TimeIdleOthers
    /\ TimeIdle
    /\ ModeIdle
    /\ CivilIdle

\* the call of thread t becomes c
CallBecomes(t, c) == read_calls' = [read_calls EXCEPT ![t] = c]

\* a thread calls read_at(buf, offset), once
ReadAt(t, buf_len, at_offset) ==
    /\ read_calls[t].at = "idle"
    /\ CallBecomes(t, [NoCall EXCEPT !.at = "called", !.offset = at_offset, !.buf_len = buf_len])
    /\ UNCHANGED <<pc, data, buffer, stream_position, mutex_owner, notMutexVars>>

\* let mut lock = self.0.lock().unwrap()
Lock(t) ==
    /\ read_calls[t].at = "called"
    /\ lock(mutex_owner)
    /\ mutex_owner' = Some(t)
    /\ CallBecomes(t, [read_calls[t] EXCEPT !.at = "locked", !.before = stream_position])
    /\ UNCHANGED <<pc, data, buffer, stream_position, notMutexVars>>

\* the call returns r and its guard is dropped
Returns(t, r, failed) ==
    /\ mutex_owner' = None
    /\ CallBecomes(t, [read_calls[t] EXCEPT !.at = "returned", !.result = r, !.failed = failed,
                                            !.after = stream_position'])

\* let original_position = lock.stream_position()?
StreamPosition(t, ok) ==
    /\ read_calls[t].at = "locked"
    /\ stream_position' = stream_position
    /\ IF ok
       THEN /\ CallBecomes(t, [read_calls[t] EXCEPT !.at = "positioned",
                                                    !.original_position = stream_position])
            /\ UNCHANGED mutex_owner
       ELSE Returns(t, Err(IoError), "stream_position")
    /\ UNCHANGED <<pc, data, buffer, notMutexVars>>

\* lock.seek(SeekFrom::Start(offset))?
SeekToOffset(t, ok) ==
    /\ read_calls[t].at = "positioned"
    /\ IF ok
       THEN /\ stream_position' = read_calls[t].offset
            /\ CallBecomes(t, [read_calls[t] EXCEPT !.at = "sought"])
            /\ UNCHANGED mutex_owner
       ELSE /\ stream_position' = stream_position
            /\ Returns(t, Err(IoError), "seek")
    /\ UNCHANGED <<pc, data, buffer, notMutexVars>>

\* let result = lock.read(buf): the stream hands out n of the bytes at its
\* position, or fails after it went over n of them
StreamRead(t, n, ok) ==
    /\ read_calls[t].at = "sought"
    /\ n <= Min(read_calls[t].buf_len, Max(0, Len(data) - stream_position))
    /\ ok => (n > 0 \/ Min(read_calls[t].buf_len, Max(0, Len(data) - stream_position)) = 0)
    /\ stream_position' = stream_position + n
    /\ CallBecomes(t, [read_calls[t] EXCEPT
                           !.at = "read",
                           !.result = IF ok THEN Ok(Slice(data, stream_position, stream_position + n))
                                      ELSE Err(IoError),
                           !.failed = IF ok THEN "none" ELSE "read"])
    /\ UNCHANGED <<pc, data, buffer, mutex_owner, notMutexVars>>

\* lock.seek(SeekFrom::Start(original_position))?; result
SeekBack(t, ok) ==
    /\ read_calls[t].at = "read"
    /\ IF ok
       THEN /\ stream_position' = read_calls[t].original_position
            /\ Returns(t, read_calls[t].result, read_calls[t].failed)
       ELSE /\ stream_position' = stream_position
            /\ Returns(t, Err(IoError), "seek_back")
    /\ UNCHANGED <<pc, data, buffer, notMutexVars>>

NextMutex ==
    \E t \in Threads :
        \/ \E buf_len \in BufLens : \E at_offset \in ReadOffsets : ReadAt(t, buf_len, at_offset)
        \/ Lock(t)
        \/ \E ok \in BOOLEAN : StreamPosition(t, ok)
        \/ \E ok \in BOOLEAN : SeekToOffset(t, ok)
        \/ \E n \in 0 .. Len(StreamBytes) : \E ok \in BOOLEAN : StreamRead(t, n, ok)
        \/ \E ok \in BOOLEAN : SeekBack(t, ok)

SpecMutex == InitMutex /\ [][NextMutex]_vars

\* a call that returned Ok returned bytes that lie at its own offset
BytesAtOwnOffset(c) ==
    (c.at = "returned" /\ IsOk(c.result)) =>
        /\ Len(c.result[2]) <= c.buf_len
        /\ c.result[2] = Slice(data, c.offset, c.offset + Len(c.result[2]))

\* C27: with several threads calling read_at on one MutexReader, each call
\* returns the bytes at its own offset whatever the interleaving, and after
\* each call, also one whose read failed, the position of the stream is the
\* position it had before the call
C27_PositionRestored ==
    \A t \in Threads :
        /\ BytesAtOwnOffset(read_calls[t])
        /\ read_calls[t].at = "returned" => read_calls[t].after = read_calls[t].before

\* C27 as amended: the position is the one before the call after every call
\* but one whose seek back to it failed; that call returns the error of the
\* seek and leaves the stream where the read ended
C27_PositionRestoredUnlessSeekFails ==
    \A t \in Threads :
        /\ BytesAtOwnOffset(read_calls[t])
        /\ (read_calls[t].at = "returned" /\ read_calls[t].failed # "seek_back") =>
               read_calls[t].after = read_calls[t].before
        /\ (read_calls[t].at = "returned" /\ read_calls[t].failed = "seek_back") =>
               /\ IsErr(read_calls[t].result)
               /\ read_calls[t].after >= read_calls[t].offset

\* two threads were in read_at at once with different offsets; one returned
\* its bytes, the other's read failed after it went over a byte
C27_Witness ==
    /\ \A t \in Threads : read_calls[t].at = "returned"
    /\ read_calls[1].offset # read_calls[2].offset
    /\ read_calls[1].result = Ok(<<7, 8>>)
    /\ read_calls[2].failed = "read"
    /\ read_calls[2].after = read_calls[2].before
    /\ read_calls[2].before # read_calls[2].offset

-----------------------------------------------------------------------------
(* An archive finish wrote with the ZIP64 end-of-central-directory record  *)
(* and locator, opened by the locator (writer.rs 389-523, locator.rs,      *)
(* archive.rs 736-778).                                                    *)

\* the archive file of a writer started at output_base: that many bytes,
\* then the writer's output
OpenWritten == OpenPrefixed(<<>>)

NextZip64 ==
    \/ NewFile(<<CHAR_A>>, MaxRecords)
    \/ DataWrite(Zeros(1))
    \/ \E n \in BulkLens : DataWriterWrite(n, Zero32)
    \/ EntryFinish
    \/ Finish
    \/ OpenWritten
    \/ SliceNextEntry

SpecZip64 == InitWrite /\ [][NextZip64]_vars

\* finish wrote the ZIP64 end-of-central-directory record and locator, and
\* the archive has been handed to the locator
Zip64Written ==
    /\ pc \in {"slice_entries", "reader_entries", "open_failed"}
    /\ Len(WrittenEndRecords) > EndOfCentralDirectoryRecordFixed_SIZE

\* the archive is taken as ZIP64 and its central directory is found where
\* the writer put it
ResolvedAsWritten ==
    /\ IsOk(located)
    /\ IsSome(located[2].zip64)
    /\ entries_offset = central_directory_offset
    /\ base_offset = 0
    /\ located_entries = Ok(WrittenCentralDirectory)
    /\ (pc = "reader_entries" /\ files # <<>>) =>
           /\ slice_records # <<>>
           /\ slice_records[1].file_name = files[1].name

\* the end-of-central-directory record carries 0xFFFF entries or the
\* central directory offset 0xFFFFFFFF
SentinelWritten ==
    \/ Len(files) >= ZIP64_THRESHOLD_ENTRIES
    \/ central_directory_offset >= ZIP64_THRESHOLD_OFFSET

\* C28: whenever finish emits the ZIP64 end-of-central-directory record and
\* locator, also when only one entry's uncompressed size, compressed size
\* or local header offset asks for them while the entry count is below
\* 0xFFFF and the central directory offset below 0xFFFFFFFF, the locator
\* takes the archive as ZIP64 and resolves the start of the central
\* directory to the offset the writer recorded, with base_offset 0, so that
\* iteration starts on the first central directory record
C28_Zip64Resolved == Zip64Written => ResolvedAsWritten

\* C28, the part that holds: so it is when the entry count or the central
\* directory offset reaches its threshold
C28_SentinelResolved == (Zip64Written /\ SentinelWritten) => ResolvedAsWritten

\* C28: when only an entry's size asks for ZIP64 the archive is taken as a
\* plain one that starts 76 bytes into the file
C28_SizeOnlyTakenAsPlain ==
    (Zip64Written /\ ~SentinelWritten) =>
        /\ IsOk(located)
        /\ ~IsSome(located[2].zip64)
        /\ base_offset = Zip64EndOfCentralDirectoryRecord_SIZE
                             + Zip64EndOfCentralDirectoryLocatorRecord_SIZE
        /\ entries_offset = central_directory_offset + base_offset

-----------------------------------------------------------------------------
(* The two locators over the same input, the reader locator with a large   *)
(* buffer (locator.rs 55-81, 211-373; archive.rs 86-92).                   *)

\* the lengths of large buffers: one that holds the fixed record with the
\* locator and the ZIP64 record in front of it, and one that holds every
\* input
LargeBufLens ==
    {Zip64EndOfCentralDirectoryRecord_SIZE + Zip64EndOfCentralDirectoryLocatorRecord_SIZE
         + EndOfCentralDirectoryRecordFixed_SIZE,
     MaxLead + Zip64EndOfCentralDirectoryRecord_SIZE
         + Zip64EndOfCentralDirectoryLocatorRecord_SIZE + EndOfCentralDirectoryRecordFixed_SIZE + 4}

\* plain inputs whose fixed record announces a comment of one or two bytes
\* of which none, one or all are there, with a byte behind them or not
PlainCommentData ==
    {Zeros(lead) \o WithCommentLen(EndOfCentralDirectoryBytes(1, 0, 0), comment_len)
         \o Slice(<<CHAR_A, CHAR_A, 0>>, 0, tail) :
       lead \in 0..1, comment_len \in 1..2, tail \in 0..3}

\* ZIP64 inputs whose fixed record has a comment
Zip64CommentData ==
    {Zeros(lead) \o write_zip64_eocd(1, 0, 0) \o write_zip64_eocd_locator(lead)
         \o WithCommentLen(e, 1) \o <<CHAR_A>> :
       lead \in 0..1, e \in SentinelRecords}

LargeBufferData == LocatorData \cup PlainCommentData \cup Zip64CommentData

InitLargeBuffer ==
    /\ pc = "find_start"
    /\ data \in LargeBufferData
    /\ buffer \in {Zeros(n) : n \in LargeBufLens}
    /\ max_search_space \in {0, EndOfCentralDirectoryRecordFixed_SIZE, Len(data)}
    /\ offset = 0
    /\ remaining = 0
    /\ carry_over = 0
    /\ read_size = 0
    /\ location_result = NotYet
    /\ VerifyIdle
    /\ EntriesIdle
    /\ PathIdle
    /\ LocateIdle
    /\ GetEntryIdle
    /\ WriteIdle
    /\ ZipReaderIdle
    /\ LocateReaderIdle
    /\ TimeIdle
    /\ ModeIdle
    /\ CivilIdle
    /\ MutexIdle

NextLargeBuffer ==
    \/ FindBegin
    \/ FindLoop
    \/ LocateInReader
    \/ LocateSameInSlice

SpecLargeBuffer == InitLargeBuffer /\ [][NextLargeBuffer]_vars

\* ZipSliceArchive::comment
ZipSliceArchive_comment(a) ==
    LET comment_start == a.eocd.stream_pos + EndOfCentralDirectoryRecordFixed_SIZE
    IN  IF comment_start > Len(a.data) THEN Panic
        ELSE LET rest == SliceFrom(a.data, comment_start)
             IN  Slice(rest, 0, Min(a.eocd.eocd.comment_len, Len(rest)))

\* both locators succeeded and describe the same archive
SameArchive(in_slice, in_reader) ==
    /\ IsOk(in_slice)
    /\ IsOk(in_reader)
    /\ end_position(in_slice[2].eocd) = end_position(in_reader[2].eocd)
    /\ eocd_offset(in_slice[2].eocd) = eocd_offset(in_reader[2].eocd)
    /\ eocd_entries(in_slice[2].eocd) = eocd_entries(in_reader[2].eocd)
    /\ eocd_base_offset(in_slice[2].eocd) = eocd_base_offset(in_reader[2].eocd)
    /\ ZipSliceArchive_comment(in_slice[2]) = in_reader[2].comment

\* both locators failed with the same kind of error
SameErrorKind(in_slice, in_reader) ==
    /\ IsErr(in_slice)
    /\ IsErr(in_reader)
    /\ in_slice[2][2][1] = in_reader[2][2][1]

\* C29: for every input and a large scratch buffer, locate_in_slice and
\* locate_in_reader (end_offset the length of the data) agree: both succeed
\* with equal central directory end position, central directory offset,
\* entry count, base offset and comment, or both fail with the same kind of
\* error, also when the comment length runs past the end of the data and
\* when a ZIP64-flagged record has fewer than 20 bytes before it
C29_LocatorsAgree ==
    pc = "both_located" =>
        \/ SameArchive(slice_archive, reader_archive)
        \/ SameErrorKind(slice_archive, reader_archive)

\* the input holds a fixed record whose comment runs past the end of the
\* data
CommentCutShort ==
    /\ LocatorLocation # None
    /\ IsOk(LocatorFixedRecord)
    /\ LocatorLocation[2] + EndOfCentralDirectoryRecordFixed_SIZE
           + LocatorFixedRecord[2].comment_len > Len(data)

\* the input holds a ZIP64-flagged fixed record with fewer than 20 bytes
\* before it
NoRoomForLocator ==
    /\ LocatorLocation # None
    /\ IsOk(LocatorFixedRecord)
    /\ is_zip64(LocatorFixedRecord[2])
    /\ LocatorLocation[2] < Zip64EndOfCentralDirectoryLocatorRecord_SIZE

\* the input holds a ZIP64-flagged fixed record with a comment
Zip64WithComment ==
    /\ LocatorLocation # None
    /\ IsOk(LocatorFixedRecord)
    /\ is_zip64(LocatorFixedRecord[2])
    /\ LocatorFixedRecord[2].comment_len > 0

\* C29, the part that holds: the locators agree on every input but those
\* three
C29_AgreeOnOtherInputs ==
    (pc = "both_located" /\ ~CommentCutShort /\ ~NoRoomForLocator /\ ~Zip64WithComment) =>
        \/ SameArchive(slice_archive, reader_archive)
        \/ SameErrorKind(slice_archive, reader_archive)

\* C29: a plain record whose comment is cut short is an archive with the
\* comment that is there for the slice locator and an error of the read for
\* the reader locator
C29_CutCommentDiffers ==
    (pc = "both_located" /\ CommentCutShort /\ ~is_zip64(LocatorFixedRecord[2])) =>
        /\ IsOk(slice_archive)
        /\ Len(ZipSliceArchive_comment(slice_archive[2])) < LocatorFixedRecord[2].comment_len
        /\ reader_archive = Err(<<data, UnexpectedEof>>)

\* C29, a state that is reached: both locators took a ZIP64 archive whose
\* comment is `a`, and the slice archive's comment, read behind the place of
\* the ZIP64 record and not behind the fixed one, is another
C29_Zip64CommentMisread ==
    /\ pc = "both_located"
    /\ IsOk(slice_archive)
    /\ IsOk(reader_archive)
    /\ IsSome(reader_archive[2].eocd.zip64)
    /\ reader_archive[2].comment = <<CHAR_A>>
    /\ ZipSliceArchive_comment(slice_archive[2]) # <<CHAR_A>>

-----------------------------------------------------------------------------
(* Directory names through normalization (path.rs 171-247) and new_dir     *)
(* (writer.rs 281-319).                                                    *)

\* C30: normalization keeps a directory a directory: for every name that
\* ends with `/` the normalized path is empty or ends with `/`, on the fast
\* path and on the slow path alike
C30_DirectoryKept ==
    (pc = "path_done" /\ is_dir(name)) =>
        (normalized[2] = <<>> \/ is_dir(normalized[2]))

\* C30, the part that holds: so it is on the fast path
C30_FastPathKeepsDirectory ==
    (pc = "path_done" /\ is_dir(name) /\ ~NeedsSlowPath(name)) =>
        (normalized[2] = <<>> \/ is_dir(normalized[2]))

\* C30: no path the slow path makes ends with `/`
C30_SlowPathDropsSlash ==
    (pc = "path_done" /\ NeedsSlowPath(name)) => ~is_dir(normalized[2])

\* C30, its consequence: new_dir accepts every name that ends with `/` and
\* fits the limit
C30_NewDirAcceptsDirectories ==
    [][\A n \in WriterNames :
           (NewDir(n, MaxRecords) /\ is_dir(n) /\ Len(n) <= U16_MAX) => IsOk(write_result')]_vars

====
